---- MODULE Spec2Model ----
(***************************************************************************)
(* The translation cache and the rate-limited translator of                *)
(* src/rag/translation.py as a state machine.                              *)
(*                                                                         *)
(* Strings whose characters matter (texts, translations, error texts) are  *)
(* sequences of one-character strings; language codes and cache keys,      *)
(* which the code only compares and concatenates, are TLA+ strings.        *)
(* Time is in whole seconds, and kept as ages: the seconds since an event, *)
(* counted up to Horizon, beyond which the code no longer tells them apart.*)
(***************************************************************************)
EXTENDS Integers, Sequences, FiniteSets, TLC

(* ------------------------------ bounds -------------------------------- *)

\* translate calls started in one behaviour
MaxCalls == 2
\* load_files, translate_chunks, embed_chunks and build_index calls in one run
MaxOps == 4
\* the seconds a request may take, or the caller pause between two calls,
\* in one go
Delay == 5

(* ------------------------- program constants -------------------------- *)

\* translation.py:74  requests_per_minute: int = 4
requests_per_minute == 4
\* translation.py:77  60.0 / requests_per_minute
SecondsPerMinute == 60
\* A retry loop that runs once too often.
max_retries_one_more == 5 + 1

\* translation.py:167
max_retries == 5
\* translation.py:194  (2 ** attempt) * 30 + 10
BackoffFactor == 30
BackoffOffset == 10

(* ------------------------------ inputs -------------------------------- *)

CR == "\r"
LF == "\n"

Rex == <<"r", "e", "x">>
Deus == <<"d", "e", "u", "s">>
Texts == {Rex, Deus}
Langs == {"la", "fr"}
\* The source language of the corpus being translated.
CallLangs == {"la"}

\* An optional value: Python's None, or a value.
None == [some |-> FALSE, v |-> <<>>]
Some(x) == [some |-> TRUE, v |-> x]

\* Python truthiness of an Optional[str]: neither None nor "".
Truthy(o) == o.some /\ o.v # <<>>

\* What self.translator.translate returns when it returns a translation.
EnglishOf(text) == <<"E">> \o text

\* The English the service gives for a text when it gives any; that of Deus
\* has a Windows line end in it.
ServiceTranslation(text) ==
  CASE text = Rex  -> <<"A">>
    [] text = Deus -> <<"B", CR, LF, "C">>
    [] OTHER       -> EnglishOf(text)

\* response.text of a generate_content call that returned: None, "", or a text.
Responses(text) == { None, Some(<<>>), Some(ServiceTranslation(text)) }

\* The translations a caller may hand to TranslationCache.put.
Translations == { <<>>, <<"A">>, <<"A", "A">>, <<"B", CR, LF, "C">>, <<"D", CR>> }

\* str(e) of the exceptions generate_content raises.
Err429 == <<"4","2","9"," ","T","o","o"," ","M","a","n","y">>
Err503 == <<"5","0","3"," ","U","N","A","V","A","I","L","A","B","L","E">>
ErrOverloaded == <<"M","o","d","e","l"," ","i","s"," ","O","v","e","r","l","o","a","d","e","d">>
Err400 == <<"4","0","0"," ","B","a","d"," ","R","e","q","u","e","s","t">>
ErrTimeout == <<"t","i","m","e","d"," ","o","u","t">>
ServiceErrors == { Err429, Err503, ErrOverloaded, Err400, ErrTimeout }

\* translation.py:87  the ValueError of the client property
ErrNoApiKey ==
  <<"G","E","M","I","N","I","_","A","P","I","_","K","E","Y"," ",
    "e","n","v","i","r","o","n","m","e","n","t"," ",
    "v","a","r","i","a","b","l","e"," ","n","o","t"," ","s","e","t">>

\* str(e) of an OSError of the cache write (no space left on device). The
\* text of an OSError raised on opening a file also names the file; no key of
\* the texts here holds 429 or 503, which line 193 would take for a retryable
\* error.
ErrDiskFull == <<"[","E","r","r","n","o"," ","2","8","]">>

(* ------------------------- string operations -------------------------- *)

UpperLetters ==
  <<"A","B","C","D","E","F","G","H","I","J","K","L","M",
    "N","O","P","Q","R","S","T","U","V","W","X","Y","Z">>
LowerLetters ==
  <<"a","b","c","d","e","f","g","h","i","j","k","l","m",
    "n","o","p","q","r","s","t","u","v","w","x","y","z">>

LowerOf ==
  [c \in {UpperLetters[j] : j \in 1..Len(UpperLetters)} |->
     LowerLetters[CHOOSE j \in 1..Len(UpperLetters) : UpperLetters[j] = c]]

LowerChar(c) == IF c \in DOMAIN LowerOf THEN LowerOf[c] ELSE c

\* str.lower()
Lower(s) == [k \in 1..Len(s) |-> LowerChar(s[k])]

\* pat in s
Contains(s, pat) ==
  \E k \in 1..(Len(s) - Len(pat) + 1) :
    \A j \in 1..Len(pat) : s[k + j - 1] = pat[j]

\* Path.read_text: text mode with newline=None reads "\r\n" and "\r" as "\n".
RECURSIVE ReadText(_)
ReadText(b) ==
  IF b = <<>> THEN <<>>
  ELSE IF Head(b) = CR
       THEN IF Len(b) >= 2 /\ b[2] = LF
            THEN <<LF>> \o ReadText(SubSeq(b, 3, Len(b)))
            ELSE <<LF>> \o ReadText(Tail(b))
       ELSE <<Head(b)>> \o ReadText(Tail(b))

\* os.linesep of the platform the program runs on (POSIX)
LineSep == <<LF>>

\* Path.write_text: text mode with newline=None writes "\n" as os.linesep.
RECURSIVE WriteText(_)
WriteText(s) ==
  IF s = <<>> THEN <<>>
  ELSE (IF Head(s) = LF THEN LineSep ELSE <<Head(s)>>) \o WriteText(Tail(s))

(* -------------------------- TranslationCache -------------------------- *)

\* A text translated n times over.
RECURSIVE Retranslated(_, _)
Retranslated(text, n) ==
  IF n = 0 THEN text ELSE EnglishOf(Retranslated(text, n - 1))

\* The chunk texts the ingestion pipeline hands to translate, each with its
\* language: the chunks of the Latin and of the French document, and what
\* the service made of them, for a chunk that is translated again.
ChunkTexts ==
  { <<Retranslated(c[1], n), c[2]>> :
      c \in { << <<"r", "e">>, "la" >>, << <<"e">>, "la" >>,
              << <<"y", "z">>, "fr" >>, << <<"z">>, "fr" >> },
      n \in 0..(MaxOps - 2) }

\* hashlib.sha256(text.encode()).hexdigest()[:16], for the texts that are
\* hashed
Sha256Digests ==
  {
    << <<"r", "e", "x">>, "3227fe6bde46249b" >>,
    << <<"d", "e", "u", "s">>, "e8afa7f6d5bb2218" >>,
    << <<"r", "e">>, "3ac1ecbd2220c675" >>,
    << <<"E", "r", "e">>, "d22d12f8e0113b50" >>,
    << <<"E", "E", "r", "e">>, "dae7d9633fc58b86" >>,
    << <<"E", "E", "E", "r", "e">>, "0dcf73bbd2f08fea" >>,
    << <<"e">>, "3f79bb7b435b0532" >>,
    << <<"E", "e">>, "2ca5a234a1f36198" >>,
    << <<"E", "E", "e">>, "4e23ca75471b2c2c" >>,
    << <<"E", "E", "E", "e">>, "db5fb935f5d92929" >>,
    << <<"y", "z">>, "68d617d6d2ee5715" >>,
    << <<"E", "y", "z">>, "87bf788cd0eebbd9" >>,
    << <<"E", "E", "y", "z">>, "fcca69668ac9536f" >>,
    << <<"E", "E", "E", "y", "z">>, "f672426700803d90" >>,
    << <<"z">>, "594e519ae499312b" >>,
    << <<"E", "z">>, "13991944d3c84e6e" >>,
    << <<"E", "E", "z">>, "3f4c32b56a144c7c" >>,
    << <<"E", "E", "E", "z">>, "c4f204dd0aa6f191" >>
  }

Sha256Prefix(text) == (CHOOSE row \in Sha256Digests : row[1] = text)[2]

_hash_text(text) == Sha256Prefix(text)

\* f"{source_lang}_{self._hash_text(text)}"
CacheKey(text, source_lang) == source_lang \o "_" \o _hash_text(text)

Keys ==
  { CacheKey(text, lang) : text \in Texts, lang \in Langs }
    \cup { CacheKey(c[1], c[2]) : c \in ChunkTexts }

\* The files <key>.txt of the cache directory: absent, or their content.
NoFiles == [k \in Keys |-> None]

\* An index (the dict in memory, or the one index.json holds): key ->
\* bookkeeping.
EmptyIndex == [k \in {} |-> 0]

\* index.json: the json.dumps of an index (a directory without the file reads
\* as the empty index does, translation.py:32-34), or a text cut short, which
\* json.loads refuses.
IndexFile(idx) == [json |-> TRUE, index |-> idx]
CutShort == [json |-> FALSE, index |-> EmptyIndex]

IndexEntry(text, source_lang, translation) ==
  [ source_lang |-> source_lang,
    original_len |-> Len(text),
    translated_len |-> Len(translation) ]

\* TranslationCache.get
get(idx, fs, text, source_lang) ==
  LET key == CacheKey(text, source_lang) IN
    IF key \in DOMAIN idx /\ fs[key].some
    THEN Some(ReadText(fs[key].v))
    ELSE None

\* TranslationCache.put: the file written ...
PutFile(fs, text, source_lang, translation) ==
  [fs EXCEPT ![CacheKey(text, source_lang)] = Some(WriteText(translation))]

\* A put that starts the index afresh.
PutIndexOnly(idx, text, source_lang, translation) ==
  LET key == CacheKey(text, source_lang) IN
    [k \in {key} |-> IndexEntry(text, source_lang, translation)]

\* ... and the index entry set (then saved to index.json).
PutIndex(idx, text, source_lang, translation) ==
  LET key == CacheKey(text, source_lang) IN
    [k \in DOMAIN idx \cup {key} |->
       IF k = key THEN IndexEntry(text, source_lang, translation) ELSE idx[k]]

(* ----------------------------- Translator ----------------------------- *)

\* translation.py:77
min_delay == SecondsPerMinute \div requests_per_minute

RECURSIVE Pow2(_)
Pow2(n) == IF n = 0 THEN 1 ELSE 2 * Pow2(n - 1)

\* A backoff without the 10 s offset.
wait_time_no_offset(attempt) == Pow2(attempt) * BackoffFactor

\* translation.py:194
wait_time(attempt) == Pow2(attempt) * BackoffFactor + BackoffOffset

\* An except clause that retries whatever was raised.
IsRetryableAny(error_str) == TRUE

\* translation.py:193
IsRetryable(error_str) ==
  \/ Contains(error_str, <<"5","0","3">>)
  \/ Contains(error_str, <<"4","2","9">>)
  \/ Contains(Lower(error_str), <<"o","v","e","r","l","o","a","d","e","d">>)

(* ------------------------------- state -------------------------------- *)

Threads == {1, 2}
\* Translator objects of the process; all use the default cache_dir.
Instances == {1, 2}

VARIABLES
  apiKey,       \* whether GEMINI_API_KEY is set in the environment
  client,       \* per Translator: self._client is not None
  sinceReq,     \* per Translator: time.time() - self.last_request_time
  index,        \* per Translator: self.cache.index
  diskIndex,    \* index.json
  files,        \* <key>.txt
  threads,      \* the threads that call translate
  inst,         \* the Translator each thread calls
  pc,           \* per thread: where it is in translate
  args,         \* per thread: text, source_lang, use_cache of the call
  attempt,      \* per thread: the loop variable of line 168
  sleepLeft,    \* per thread: the seconds its time.sleep still has to run
  result,       \* per thread: the value returned by the last call
  trace,        \* per thread: what the current call did, in order
  errs,         \* per thread: the classes of the errors the current call met
  snap,         \* per thread: the cache when the call started
  putting,      \* per thread: the cache.put it is in, and how far that is
  prev,         \* per thread: the call before the current one
  sinceDisp,    \* per Translator: seconds since generate_content was last called
  gap,          \* per Translator: seconds between its last two calls of it
  calls,        \* translate calls started
  got,          \* the last direct TranslationCache.get: its arguments and value
  reader,       \* the index of the TranslationCache a further process opened
  lastPut,      \* per (text, source_lang): the translation last put directly
  chunk_size,   \* MultilingualIngestor: self.chunk_size (0: not constructed)
  overlap,      \* MultilingualIngestor: self.overlap
  chunking,     \* the chunk_text call in progress or returned: text, i, chunks
  dataDir,      \* the .txt files under data_dir, as rglob lists them
  translating,  \* MultilingualIngestor: self.translator is not None
  chunks,       \* MultilingualIngestor: self.chunks
  embeddings,   \* MultilingualIngestor: self.embeddings
  faissIndex,   \* MultilingualIngestor: self.index
  saving,       \* where save() is: "no", "index_open", "index_written", ...
  savedIndex,   \* index_dir/faiss.index
  savedChunks,  \* index_dir/chunks.json
  savedConfig,  \* index_dir/config.json
  run,          \* the number of the ingestion run (process) in progress
  ops,          \* pipeline operations completed in this run
  retriever,    \* the Retriever under construction or constructed
  numbering,    \* load_file numbering the chunks of a long document
  passed,       \* the translate_chunks call in progress, or the last one
  results       \* the last retrieve call: its arguments, the search, the return

\* What a direct user of the cache sees; the translator leaves it alone.
cacheUser == << got, lastPut, reader >>

\* The ingestion pipeline, which calls the translator.
pipelineVars ==
  << dataDir, translating, chunks, embeddings, faissIndex, saving, savedIndex,
     savedChunks, savedConfig, run, ops, retriever, numbering, passed, results >>

ingestVars == << chunk_size, overlap, chunking, pipelineVars >>

\* The variables of the translator's callers.
callerVars == << threads, inst, apiKey, ingestVars >>

vars ==
  << apiKey, client, sinceReq, index, diskIndex, files, threads, inst, pc, args,
     attempt, sleepLeft, result, trace, errs, snap, putting, prev, sinceDisp,
     gap, calls, got, lastPut, reader, ingestVars >>

\* An age is counted up to Horizon. The code compares an age with min_delay
\* only, so every age of min_delay or more behaves as min_delay does.
Horizon == min_delay

\* no dispatch yet / fewer than two dispatches
NoTime == 0 - 1

Min(a, b) == IF a < b THEN a ELSE b
Max(a, b) == IF a > b THEN a ELSE b

\* An age d seconds later.
Older(age, d) == IF age = NoTime THEN NoTime ELSE Min(age + d, Horizon)

NoArgs == [text |-> <<>>, source_lang |-> "", use_cache |-> FALSE]
NoCall == [valid |-> FALSE, args |-> NoArgs, result |-> <<>>, requests |-> 0]
NoGet == [text |-> <<>>, source_lang |-> "", value |-> None, error |-> ""]
\* No cache.put in progress.
NoPut ==
  [ pc |-> "no", text |-> <<>>, source_lang |-> "", translation |-> <<>>,
    seen |-> EmptyIndex, dumped |-> EmptyIndex ]

\* One thing a call did: e is its kind, d the seconds of a sleep, s the text
\* of a response.
Event(e, d, s) == [e |-> e, d |-> d, s |-> s]

\* What an observer of the service calls an error, whatever the translator
\* makes of it: a quota error (429), an overload (503, or the word in any
\* letter case), or another error.
ErrorClass(error_str) ==
  IF Contains(error_str, <<"4","2","9">>) THEN "quota"
  ELSE IF \/ Contains(error_str, <<"5","0","3">>)
          \/ \E k \in 1..(Len(error_str) - 9) :
               Lower(SubSeq(error_str, k, k + 9)) =
                 <<"o","v","e","r","l","o","a","d","e","d">>
       THEN "overload"
       ELSE "other"

Count(tr, kind) == Cardinality({k \in 1..Len(tr) : tr[k].e = kind})
Requests(tr) == Count(tr, "request")
Only(tr, kinds) == SelectSeq(tr, LAMBDA ev : ev.e \in kinds)

Snapshot(i) == [index |-> index[i], diskIndex |-> diskIndex, files |-> files]

\* No chunk_text call yet.
NoChunking == [pc |-> "idle", text |-> <<>>, i |-> 0, chunks |-> <<>>, steps |-> 0]

NoRetriever == [pc |-> "none", index |-> None, chunks |-> None, error |-> None]
\* No translate_chunks call and no retrieve call yet. A translate_chunks
\* call: where it is, its max_chunks, the positions of the chunks it selected,
\* how many of them its loop has been through, those translate returned ""
\* for or raised on, and whether an exception ended it.
NoPass ==
  [ pc |-> "no", max_chunks |-> 0, positions |-> <<>>, at |-> 0, failed |-> {},
    raised |-> FALSE ]
NoResults ==
  [ fn |-> "none", question |-> <<>>, top_k |-> 0, languages |-> <<>>,
    hits |-> <<>>, out |-> <<>> ]
NoNumbering == [i |-> 0, prefix |-> <<>>, last |-> None, chunk_id |-> None]

\* No MultilingualIngestor has been constructed, index_dir is empty.
NoIngestor ==
  /\ chunk_size = 0
  /\ overlap = 0
  /\ chunking = NoChunking
  /\ dataDir = <<>>
  /\ translating = FALSE
  /\ chunks = <<>>
  /\ embeddings = None
  /\ faissIndex = None
  /\ saving = "no"
  /\ savedIndex = None
  /\ savedChunks = None
  /\ savedConfig = None
  /\ run = 0
  /\ ops = 0
  /\ retriever = NoRetriever
  /\ numbering = NoNumbering
  /\ passed = NoPass
  /\ results = NoResults

\* The translator and its cache, newly constructed; the cache directory
\* holds an index.json of idx and the files fs.
InitTranslatorOn(ths, instOf, idx, fs) ==
  /\ apiKey \in BOOLEAN
  /\ client = [i \in Instances |-> FALSE]
  /\ sinceReq = [i \in Instances |-> Horizon]
  /\ index = [i \in Instances |-> idx]
  /\ diskIndex = IndexFile(idx)
  /\ files = fs
  /\ threads = ths
  /\ inst = instOf
  /\ pc = [t \in Threads |-> "idle"]
  /\ args = [t \in Threads |-> NoArgs]
  /\ attempt = [t \in Threads |-> 0]
  /\ sleepLeft = [t \in Threads |-> 0]
  /\ result = [t \in Threads |-> <<>>]
  /\ trace = [t \in Threads |-> <<>>]
  /\ errs = [t \in Threads |-> {}]
  /\ snap = [t \in Threads |-> Snapshot(instOf[t])]
  /\ putting = [t \in Threads |-> NoPut]
  /\ prev = [t \in Threads |-> NoCall]
  /\ sinceDisp = [i \in Instances |-> NoTime]
  /\ gap = [i \in Instances |-> NoTime]
  /\ calls = 0
  /\ got = NoGet
  /\ reader = None
  /\ lastPut = [text \in Texts, lang \in Langs |-> None]

\* The same on an empty directory.
InitTranslator(ths, instOf) == InitTranslatorOn(ths, instOf, EmptyIndex, NoFiles)

InitWith(ths, instOf) == InitTranslator(ths, instOf) /\ NoIngestor

\* One thread, one Translator: the ingestion pipeline. last_request_time
\* starts at 0, an age of decades.
Init == InitWith({1}, [t \in Threads |-> 1])

(* ------------------------ Translator.translate ------------------------ *)

\* return value
Return(t, value) ==
  /\ pc' = [pc EXCEPT ![t] = "done"]
  /\ result' = [result EXCEPT ![t] = value]

Log(t, evs) == trace' = [trace EXCEPT ![t] = @ \o evs]

\* A cache check whose result is dropped.
IsHitNever(use_cache, cached) == FALSE

\* translation.py:143-145: if use_cache: ... if cached:
IsHit(use_cache, cached) == use_cache /\ Truthy(cached)

\* translation.py:124-149: the call, the cache check, and on a miss the way
\* into _rate_limit.
translate_call(t, text, source_lang, use_cache) ==
  LET i == inst[t]
      cached == IF use_cache THEN get(index[i], files, text, source_lang) ELSE None
  IN
  /\ t \in threads
  /\ pc[t] \in {"idle", "done", "raised"}
  /\ args' = [args EXCEPT ![t] =
                [text |-> text, source_lang |-> source_lang, use_cache |-> use_cache]]
  /\ prev' = [prev EXCEPT ![t] =
                IF pc[t] = "done"
                THEN [valid |-> TRUE, args |-> args[t], result |-> result[t],
                      requests |-> Requests(trace[t])]
                ELSE NoCall]
  /\ snap' = [snap EXCEPT ![t] = Snapshot(i)]
  /\ attempt' = [attempt EXCEPT ![t] = 0]
  /\ errs' = [errs EXCEPT ![t] = {}]
  /\ IF IsHit(use_cache, cached)
     THEN /\ Return(t, cached.v)
          /\ trace' = [trace EXCEPT ![t] = <<Event("cache_hit", 0, <<>>)>>]
     ELSE /\ pc' = [pc EXCEPT ![t] = "rate_limit"]
          /\ trace' = [trace EXCEPT ![t] = <<>>]
          /\ result' = result
  /\ UNCHANGED << client, sinceReq, index, diskIndex, files, sleepLeft, sinceDisp,
                  gap, putting, cacheUser >>

\* translate called by a caller of its own, one of the MaxCalls calls of a
\* behaviour
translate(t, text, source_lang, use_cache) ==
  /\ calls < MaxCalls
  /\ calls' = calls + 1
  /\ translate_call(t, text, source_lang, use_cache)
  /\ UNCHANGED callerVars

\* translation.py:119-121: elapsed is computed, and the sleep begun if one is due
_rate_limit(t) ==
  LET elapsed == sinceReq[inst[t]] IN
  /\ t \in threads
  /\ pc[t] = "rate_limit"
  /\ IF elapsed < min_delay
     THEN /\ pc' = [pc EXCEPT ![t] = "rate_limit_sleep"]
          /\ sleepLeft' = [sleepLeft EXCEPT ![t] = min_delay - elapsed]
          /\ Log(t, <<Event("rate_limit_sleep", min_delay - elapsed, <<>>)>>)
     ELSE /\ pc' = [pc EXCEPT ![t] = "rate_limit_stamp"]
          /\ UNCHANGED << sleepLeft, trace >>
  /\ UNCHANGED << errs, client, sinceReq, index, diskIndex, files, args, attempt,
                  result, snap, prev, sinceDisp, gap, calls, putting, callerVars,
                  cacheUser >>

\* translation.py:121: the sleep is over
_rate_limit_wake(t) ==
  /\ t \in threads
  /\ pc[t] = "rate_limit_sleep"
  /\ sleepLeft[t] = 0
  /\ pc' = [pc EXCEPT ![t] = "rate_limit_stamp"]
  /\ UNCHANGED << errs, client, sinceReq, index, diskIndex, files, args, attempt,
                  sleepLeft, result, trace, snap, prev, sinceDisp, gap, calls,
                  putting, callerVars, cacheUser >>

\* translation.py:122: last_request_time is set
_rate_limit_stamp(t) ==
  /\ t \in threads
  /\ pc[t] = "rate_limit_stamp"
  /\ pc' = [pc EXCEPT ![t] = "attempt"]
  /\ sinceReq' = [sinceReq EXCEPT ![inst[t]] = 0]
  /\ Log(t, <<Event("stamp", 0, <<>>)>>)
  /\ UNCHANGED << errs, client, index, diskIndex, files, args, attempt, sleepLeft,
                  result, snap, prev, sinceDisp, gap, calls, putting, callerVars,
                  cacheUser >>

\* translation.py:190-200: the except clause, entered after the try block
\* did what the events of done say
ExceptAfter(t, error_str, done) ==
  /\ errs' = [errs EXCEPT ![t] = @ \cup {ErrorClass(error_str)}]
  /\ IF IsRetryable(error_str)
     THEN /\ pc' = [pc EXCEPT ![t] = "backoff"]
          /\ sleepLeft' = [sleepLeft EXCEPT ![t] = wait_time(attempt[t])]
          /\ Log(t, done \o << Event("error", 0, <<>>),
                                Event("backoff", wait_time(attempt[t]), <<>>) >>)
          /\ UNCHANGED result
     ELSE /\ Return(t, <<>>)
          /\ Log(t, done \o <<Event("error", 0, <<>>)>>)
          /\ UNCHANGED sleepLeft

\* translation.py:190-200: the except clause
Except(t, error_str) == ExceptAfter(t, error_str, <<>>)

\* translation.py:168, 202-203: the loop is over
retries_exhausted(t) ==
  /\ t \in threads
  /\ pc[t] = "attempt"
  /\ attempt[t] >= max_retries
  /\ Return(t, <<>>)
  /\ UNCHANGED << errs, client, sinceReq, index, diskIndex, files, args, attempt,
                  sleepLeft, trace, snap, prev, sinceDisp, gap, calls,
                  putting, callerVars, cacheUser >>

\* translation.py:81-89, 176: self.client raises inside the try
client_fails(t) ==
  /\ t \in threads
  /\ pc[t] = "attempt"
  /\ attempt[t] < max_retries
  /\ ~client[inst[t]] /\ ~apiKey
  /\ Except(t, ErrNoApiKey)
  /\ UNCHANGED << client, sinceReq, index, diskIndex, files, args, attempt,
                  snap, prev, sinceDisp, gap, calls, putting, callerVars, cacheUser >>

\* translation.py:168-180: generate_content is called
dispatch(t) ==
  LET i == inst[t] IN
  /\ t \in threads
  /\ pc[t] = "attempt"
  /\ attempt[t] < max_retries
  /\ client[i] \/ apiKey
  /\ client' = [client EXCEPT ![i] = TRUE]
  /\ pc' = [pc EXCEPT ![t] = "requesting"]
  /\ Log(t, <<Event("request", 0, <<>>)>>)
  /\ gap' = [gap EXCEPT ![i] = sinceDisp[i]]
  /\ sinceDisp' = [sinceDisp EXCEPT ![i] = 0]
  /\ UNCHANGED << errs, sinceReq, index, diskIndex, files, args, attempt, sleepLeft,
                  result, snap, prev, calls, putting, callerVars, cacheUser >>

\* translation.py:182  response.text or ""
TextOr(text_of_response) ==
  IF Truthy(text_of_response) THEN text_of_response.v ELSE <<>>

\* translation.py:182-188: generate_content returned, for a caller that is
\* alone with its cache directory, so that nothing comes between the steps of
\* its cache.put (respond_put is the same for callers that are not)
respond(t, text_of_response) ==
  LET i == inst[t]
      a == args[t]
      translation == TextOr(text_of_response)
  IN
  /\ t \in threads
  /\ pc[t] = "requesting"
  /\ IF a.use_cache /\ translation # <<>>
     THEN /\ files' = PutFile(files, a.text, a.source_lang, translation)
          /\ index' = [index EXCEPT ![i] = PutIndex(@, a.text, a.source_lang, translation)]
          /\ diskIndex' = IndexFile(PutIndex(index[i], a.text, a.source_lang, translation))
          /\ Log(t, << Event("ok", 0, translation), Event("put", 0, <<>>) >>)
     ELSE /\ UNCHANGED << files, index, diskIndex >>
          /\ Log(t, <<Event("ok", 0, translation)>>)
  /\ Return(t, translation)
  /\ UNCHANGED << errs, client, sinceReq, args, attempt, sleepLeft, snap, prev,
                  sinceDisp, gap, calls, putting, callerVars, cacheUser >>

\* translation.py:176, 190-200: generate_content raised
request_fails(t, error_str) ==
  /\ t \in threads
  /\ pc[t] = "requesting"
  /\ Except(t, error_str)
  /\ UNCHANGED << client, sinceReq, index, diskIndex, files, args, attempt,
                  snap, prev, sinceDisp, gap, calls, putting, callerVars, cacheUser >>

\* translation.py:196-197, 168: the backoff sleep is over, the next attempt
backoff_wake(t) ==
  /\ t \in threads
  /\ pc[t] = "backoff"
  /\ sleepLeft[t] = 0
  /\ attempt' = [attempt EXCEPT ![t] = @ + 1]
  /\ pc' = [pc EXCEPT ![t] = "attempt"]
  /\ UNCHANGED << errs, client, sinceReq, index, diskIndex, files, args, sleepLeft,
                  result, trace, snap, prev, sinceDisp, gap, calls, putting, callerVars,
                  cacheUser >>

(* ----------------------- cache.put, step by step ---------------------- *)

\* str(e) of the RuntimeError of a dict that grew while json.dumps went
\* through it
ErrDictChanged ==
  <<"d","i","c","t","i","o","n","a","r","y"," ","c","h","a","n","g","e","d"," ",
    "s","i","z","e"," ","d","u","r","i","n","g"," ",
    "i","t","e","r","a","t","i","o","n">>

\* What a step inside put leaves alone.
besidesCache ==
  << client, sinceReq, pc, args, attempt, sleepLeft, result, trace, errs, snap,
     prev, sinceDisp, gap, calls, callerVars, cacheUser >>

\* translation.py:55  put(text, source_lang, translation) has been called
PutCalled(text, source_lang, translation) ==
  [NoPut EXCEPT !.pc = "called", !.text = text, !.source_lang = source_lang,
                !.translation = translation]

PutKey(t) == CacheKey(putting[t].text, putting[t].source_lang)

\* translation.py:59: write_text opens the file for writing, which empties it
put_open_file(t) ==
  /\ t \in threads
  /\ putting[t].pc = "called"
  /\ files' = [files EXCEPT ![PutKey(t)] = Some(<<>>)]
  /\ putting' = [putting EXCEPT ![t].pc = "file_open"]
  /\ UNCHANGED << index, diskIndex, besidesCache >>

\* translation.py:59: write_text writes the translation and closes the file
put_write_file(t) ==
  /\ t \in threads
  /\ putting[t].pc = "file_open"
  /\ files' = PutFile(files, putting[t].text, putting[t].source_lang,
                      putting[t].translation)
  /\ putting' = [putting EXCEPT ![t].pc = "file_written"]
  /\ UNCHANGED << index, diskIndex, besidesCache >>

\* translation.py:60-64: self.index[key] = {...}
put_set_entry(t) ==
  /\ t \in threads
  /\ putting[t].pc = "file_written"
  /\ index' = [index EXCEPT ![inst[t]] =
                 PutIndex(@, putting[t].text, putting[t].source_lang,
                          putting[t].translation)]
  /\ putting' = [putting EXCEPT ![t].pc = "entry_set"]
  /\ UNCHANGED << files, diskIndex, besidesCache >>

\* translation.py:39: json.dumps starts to go through self.index
_save_index_dumps(t) ==
  /\ t \in threads
  /\ putting[t].pc = "entry_set"
  /\ putting' = [putting EXCEPT ![t].pc = "dumping", ![t].seen = index[inst[t]]]
  /\ UNCHANGED << files, index, diskIndex, besidesCache >>

\* translation.py:39: json.dumps ends: with a RuntimeError when the dict got
\* a key meanwhile, and otherwise with the entries as they were at some
\* moment since it started.
_save_index_dumped(t) ==
  /\ t \in threads
  /\ putting[t].pc = "dumping"
  /\ IF DOMAIN index[inst[t]] # DOMAIN putting[t].seen
     THEN putting' = [putting EXCEPT ![t].pc = "raised"]
     ELSE \E d \in {putting[t].seen, index[inst[t]]} :
            putting' = [putting EXCEPT ![t].pc = "dumped", ![t].dumped = d]
  /\ UNCHANGED << files, index, diskIndex, besidesCache >>

\* index.json as the writer leaves it, by merging what the file already held.
_save_index_merging(idx, disk) ==
  [k \in DOMAIN disk \cup DOMAIN idx |-> IF k \in DOMAIN idx THEN idx[k] ELSE disk[k]]

\* translation.py:36-40: index.json is replaced by json.dumps(self.index),
\* whatever it held.
_save_index(idx, disk) == idx

\* translation.py:38: write_text opens index.json for writing, which empties it
_save_index_open(t) ==
  /\ t \in threads
  /\ putting[t].pc = "dumped"
  /\ diskIndex' = CutShort
  /\ putting' = [putting EXCEPT ![t].pc = "index_open",
                                ![t].dumped = _save_index(@, diskIndex.index)]
  /\ UNCHANGED << files, index, besidesCache >>

\* translation.py:38: write_text writes the dumped index; put returns
_save_index_write(t) ==
  /\ t \in threads
  /\ putting[t].pc = "index_open"
  /\ diskIndex' = IndexFile(putting[t].dumped)
  /\ putting' = [putting EXCEPT ![t].pc = "returned"]
  /\ UNCHANGED << files, index, besidesCache >>

\* translation.py:55-65, one step of it
PutSteps(t) ==
  \/ put_open_file(t)
  \/ put_write_file(t)
  \/ put_set_entry(t)
  \/ _save_index_dumps(t)
  \/ _save_index_dumped(t)
  \/ _save_index_open(t)
  \/ _save_index_write(t)

\* translation.py:182-186: generate_content returned; a text to cache is
\* handed to cache.put, any other result is returned
respond_put(t, text_of_response) ==
  LET a == args[t]
      translation == TextOr(text_of_response)
  IN
  /\ t \in threads
  /\ pc[t] = "requesting"
  /\ Log(t, <<Event("ok", 0, translation)>>)
  /\ IF a.use_cache /\ translation # <<>>
     THEN /\ pc' = [pc EXCEPT ![t] = "put"]
          /\ putting' = [putting EXCEPT ![t] =
                           PutCalled(a.text, a.source_lang, translation)]
          /\ UNCHANGED result
     ELSE /\ Return(t, translation)
          /\ UNCHANGED putting
  /\ UNCHANGED << errs, client, sinceReq, index, diskIndex, files, args, attempt,
                  sleepLeft, snap, prev, sinceDisp, gap, calls, callerVars,
                  cacheUser >>

\* translation.py:186-188: put returned, translate returns the translation
put_returned(t) ==
  /\ t \in threads
  /\ pc[t] = "put"
  /\ putting[t].pc = "returned"
  /\ Return(t, putting[t].translation)
  /\ Log(t, <<Event("put", 0, <<>>)>>)
  /\ putting' = [putting EXCEPT ![t] = NoPut]
  /\ UNCHANGED << errs, client, sinceReq, index, diskIndex, files, args, attempt,
                  sleepLeft, snap, prev, sinceDisp, gap, calls, callerVars,
                  cacheUser >>

\* translation.py:186, 190-200: put raised inside the try, the except clause
\* has the RuntimeError
put_raised(t) ==
  /\ t \in threads
  /\ pc[t] = "put"
  /\ putting[t].pc = "raised"
  /\ Except(t, ErrDictChanged)
  /\ putting' = [putting EXCEPT ![t] = NoPut]
  /\ UNCHANGED << client, sinceReq, index, diskIndex, files, args, attempt,
                  snap, prev, sinceDisp, gap, calls, callerVars, cacheUser >>

(* -------------------------------- time -------------------------------- *)

Sleeping(t) == t \in threads /\ pc[t] \in {"rate_limit_sleep", "backoff"}

\* d seconds pass.
Pass(d) ==
  /\ sinceReq' = [i \in Instances |-> Older(sinceReq[i], d)]
  /\ sinceDisp' = [i \in Instances |-> Older(sinceDisp[i], d)]
  /\ sleepLeft' = [t \in Threads |->
                     IF Sleeping(t) THEN Max(sleepLeft[t] - d, 0) ELSE sleepLeft[t]]

\* time.sleep: time passes until the earliest end of a sleep in progress.
sleep ==
  /\ \E t \in Threads : Sleeping(t)
  /\ \A t \in Threads : Sleeping(t) => sleepLeft[t] > 0
  /\ Pass(CHOOSE d \in {sleepLeft[t] : t \in {u \in Threads : Sleeping(u)}} :
            \A t \in Threads : Sleeping(t) => d <= sleepLeft[t])
  /\ UNCHANGED << errs, client, index, diskIndex, files, pc, args, attempt, result,
                  trace, snap, prev, gap, calls, putting, callerVars, cacheUser >>

\* A request takes a while, or the caller pauses between two calls.
tick ==
  /\ \A t \in Threads : ~Sleeping(t)
  /\ \E t \in threads : pc[t] \in {"requesting", "done"}
  /\ Pass(Delay)
  /\ UNCHANGED << errs, client, index, diskIndex, files, pc, args, attempt, result,
                  trace, snap, prev, gap, calls, putting, callerVars, cacheUser >>

(* --------------------------- specifications --------------------------- *)

Step(t) ==
  \/ \E text \in Texts, source_lang \in CallLangs, use_cache \in BOOLEAN :
       translate(t, text, source_lang, use_cache)
  \/ _rate_limit(t)
  \/ _rate_limit_wake(t)
  \/ _rate_limit_stamp(t)
  \/ retries_exhausted(t)
  \/ client_fails(t)
  \/ dispatch(t)
  \/ /\ pc[t] = "requesting"
     /\ \E r \in Responses(args[t].text) : respond(t, r)
  \/ \E e \in ServiceErrors : request_fails(t, e)
  \/ backoff_wake(t)

Next ==
  \/ \E t \in Threads : Step(t)
  \/ sleep
  \/ tick

Spec == Init /\ [][Next]_vars

\* Two threads of one process call translate, on one Translator or on two.
InitThreads ==
  \E instOf \in {[t \in Threads |-> 1], [t \in Threads |-> t]} :
    InitWith({1, 2}, instOf)

\* The service answers, or refuses for good: the retry loop, which each
\* thread runs on its own, plays no part in how the threads meet. The threads
\* take turns between any two steps, also inside cache.put.
StepThreads(t) ==
  \/ \E text \in Texts, source_lang \in CallLangs, use_cache \in BOOLEAN :
       translate(t, text, source_lang, use_cache)
  \/ _rate_limit(t)
  \/ _rate_limit_wake(t)
  \/ _rate_limit_stamp(t)
  \/ client_fails(t)
  \/ dispatch(t)
  \/ /\ pc[t] = "requesting"
     /\ \E r \in Responses(args[t].text) : respond_put(t, r)
  \/ PutSteps(t)
  \/ put_returned(t)
  \/ put_raised(t)
  \/ request_fails(t, Err400)

\* The same for a caller that is alone: nothing comes between the steps of
\* its cache.put.
StepAlone(t) ==
  \/ \E text \in Texts, source_lang \in CallLangs, use_cache \in BOOLEAN :
       translate(t, text, source_lang, use_cache)
  \/ _rate_limit(t)
  \/ _rate_limit_wake(t)
  \/ _rate_limit_stamp(t)
  \/ client_fails(t)
  \/ dispatch(t)
  \/ /\ pc[t] = "requesting"
     /\ \E r \in Responses(args[t].text) : respond(t, r)
  \/ request_fails(t, Err400)

NextThreads ==
  \/ \E t \in Threads : StepThreads(t)
  \/ sleep
  \/ tick

SpecThreads == InitThreads /\ [][NextThreads]_vars

(* ------------------- the cache directory can fail --------------------- *)

\* translation.py:143-144, 46-52: cache.get raises (the file of an indexed
\* key cannot be read or decoded); the call is outside the try of line 169.
translate_call_raises(t, text, source_lang) ==
  LET i == inst[t]
      key == CacheKey(text, source_lang)
  IN
  /\ t \in threads
  /\ pc[t] \in {"idle", "done", "raised"}
  /\ key \in DOMAIN index[i] /\ files[key].some
  /\ args' = [args EXCEPT ![t] =
                [text |-> text, source_lang |-> source_lang, use_cache |-> TRUE]]
  /\ prev' = [prev EXCEPT ![t] = NoCall]
  /\ snap' = [snap EXCEPT ![t] = Snapshot(i)]
  /\ attempt' = [attempt EXCEPT ![t] = 0]
  /\ errs' = [errs EXCEPT ![t] = {}]
  /\ pc' = [pc EXCEPT ![t] = "raised"]
  /\ trace' = [trace EXCEPT ![t] = <<Event("raised", 0, <<>>)>>]
  /\ UNCHANGED << client, sinceReq, index, diskIndex, files, sleepLeft, result,
                  sinceDisp, gap, putting, cacheUser >>

\* The same of a caller of its own.
translate_get_raises(t, text, source_lang) ==
  /\ calls < MaxCalls
  /\ calls' = calls + 1
  /\ translate_call_raises(t, text, source_lang)
  /\ UNCHANGED callerVars

\* The texts a write that fails part-way may leave in the file.
ProperPrefixes(b) == {SubSeq(b, 1, n) : n \in 0..(Len(b) - 1)}

\* translation.py:182-186, 55-65, 190-200: generate_content returned, and
\* cache.put raises inside the try.
\* In write_text of the file: the file is as it was (it could not be opened)
\* or holds a part of the translation. In _save_index: the file and the dict
\* are updated, index.json is as it was (it could not be opened) or cut short.
respond_put_raises(t, text_of_response) ==
  LET i == inst[t]
      a == args[t]
      translation == TextOr(text_of_response)
      key == CacheKey(a.text, a.source_lang)
  IN
  /\ t \in threads
  /\ pc[t] = "requesting"
  /\ a.use_cache /\ translation # <<>>
  /\ \/ /\ \/ files' = files
           \/ \E part \in ProperPrefixes(WriteText(translation)) :
                files' = [files EXCEPT ![key] = Some(part)]
        /\ UNCHANGED << index, diskIndex >>
     \/ /\ files' = PutFile(files, a.text, a.source_lang, translation)
        /\ index' = [index EXCEPT ![i] = PutIndex(@, a.text, a.source_lang, translation)]
        /\ diskIndex' \in {diskIndex, CutShort}
  /\ ExceptAfter(t, ErrDiskFull, <<Event("ok", 0, translation)>>)
  /\ UNCHANGED << client, sinceReq, args, attempt, snap, prev,
                  sinceDisp, gap, calls, putting, callerVars, cacheUser >>

NextIO ==
  \/ Next
  \/ \E t \in Threads, text \in Texts, source_lang \in CallLangs :
       translate_get_raises(t, text, source_lang)
  \/ \E t \in Threads :
       /\ pc[t] = "requesting"
       /\ \E r \in Responses(args[t].text) : respond_put_raises(t, r)

SpecIO == Init /\ [][NextIO]_vars

(* ------------------- TranslationCache, used directly ------------------ *)

translatorVars ==
  << client, sinceReq, pc, args, attempt, sleepLeft, result, trace, errs, snap,
     putting, prev, sinceDisp, gap, calls >>

\* translation.py:55-65
put(text, source_lang, translation) ==
  /\ files' = PutFile(files, text, source_lang, translation)
  /\ index' = [index EXCEPT ![1] = PutIndex(@, text, source_lang, translation)]
  /\ diskIndex' = IndexFile(PutIndex(index[1], text, source_lang, translation))
  /\ lastPut' = [lastPut EXCEPT ![text, source_lang] = Some(translation)]
  /\ UNCHANGED << got, reader, callerVars, translatorVars >>

\* translation.py:46-53
cache_get(text, source_lang) ==
  /\ got' = [text |-> text, source_lang |-> source_lang,
             value |-> get(index[1], files, text, source_lang), error |-> ""]
  /\ UNCHANGED << files, index, diskIndex, lastPut, reader, callerVars, translatorVars >>

NextCache ==
  \/ \E text \in Texts, source_lang \in Langs, translation \in Translations :
       put(text, source_lang, translation)
  \/ \E text \in Texts, source_lang \in Langs : cache_get(text, source_lang)

SpecCache == Init /\ [][NextCache]_vars

(* ------------------------------- claims ------------------------------- *)

Ended(t) == pc[t] \in {"done", "raised"}

\* The cache of thread t's Translator is as it was when t's call started.
CacheUntouched(t) ==
  /\ index[inst[t]] = snap[t].index
  /\ diskIndex = snap[t].diskIndex
  /\ files = snap[t].files

\* C1: any two consecutive generate_content calls of one Translator, retries
\* and calls for other texts included, are at least min_delay seconds apart.
C1_RequestsAtLeastMinDelayApart ==
  \A i \in Instances : gap[i] # NoTime => gap[i] >= min_delay

\* Every request of t's call so far failed with a quota or overload error.
AllRequestsFailedRetryable(t) ==
  /\ Requests(trace[t]) >= 1
  /\ Count(trace[t], "ok") = 0
  /\ errs[t] \subseteq {"quota", "overload"}

\* C2: a call never issues more than 5 requests, and a call that ended with
\* every request failed by a 429, 503 or overloaded error issued exactly 5,
\* returned the empty string without raising, and wrote nothing to the cache.
C2_RetryableFailuresStopAfterFive ==
  \A t \in threads :
    /\ Requests(trace[t]) <= 5
    /\ (Ended(t) /\ AllRequestsFailedRetryable(t)) =>
         /\ pc[t] = "done"
         /\ Requests(trace[t]) = 5
         /\ result[t] = <<>>
         /\ Count(trace[t], "put") = 0
         /\ CacheUntouched(t)

C2_Witness ==
  /\ pc[1] = "done"
  /\ AllRequestsFailedRetryable(1)
  /\ errs[1] = {"quota", "overload"}
  /\ Requests(trace[1]) = 5

\* C3: once a request has failed with an error that carries none of 429, 503
\* and overloaded, the call is over: it has returned the empty string, the
\* failure is the last thing it did (no backoff, no further request), and the
\* cache is as the call found it.
C3_FatalErrorReturnsAtOnce ==
  \A t \in threads :
    ("other" \in errs[t] /\ Requests(trace[t]) >= 1) =>
      /\ pc[t] = "done"
      /\ result[t] = <<>>
      /\ trace[t][Len(trace[t])].e = "error"
      /\ Count(trace[t], "backoff") = Count(trace[t], "error") - 1
      /\ Count(trace[t], "request") = Count(trace[t], "error")
      /\ CacheUntouched(t)

C3_Witness ==
  /\ pc[1] = "done"
  /\ "other" \in errs[1]
  /\ Requests(trace[1]) = 3
  /\ Count(trace[1], "backoff") = 2

\* C4: translate never raises, whatever the service, the client construction
\* and the cache read and write do: every call ends by returning a string.
C4_TranslateNeverRaises ==
  \A t \in threads : pc[t] # "raised"

\* The translation the cache held for the arguments of t's call when the call
\* started.
HeldAtCall(t) ==
  get(snap[t].index, snap[t].files, args[t].text, args[t].source_lang)

\* C5: a call with caching enabled for which the cache holds a translation
\* has returned it at once: no request, no wait, last_request_time not set,
\* the cache as it was.
C5_CacheHitShortCircuits ==
  \A t \in threads :
    (pc[t] # "idle" /\ args[t].use_cache /\ HeldAtCall(t).some) =>
      /\ pc[t] = "done"
      /\ result[t] = HeldAtCall(t).v
      /\ trace[t] = <<Event("cache_hit", 0, <<>>)>>
      /\ CacheUntouched(t)

C5_Witness ==
  /\ pc[1] = "done"
  /\ args[1].use_cache
  /\ HeldAtCall(1) = Some(<<"B", LF, "C">>)
  /\ result[1] = <<"B", LF, "C">>
  /\ sinceReq[1] < min_delay

\* The call thread t made before its current one had the same arguments,
\* with caching enabled, and has returned.
SecondOfTwo(t) ==
  /\ prev[t].valid
  /\ pc[t] # "idle"
  /\ args[t] = prev[t].args
  /\ args[t].use_cache

\* C6, in the case most favourable to the code: the first of two successive
\* calls for one (text, source_lang) with caching enabled returned a non-empty
\* translation. The second call then dispatches no request and returns
\* exactly the value the first call returned.
C6_SecondCallReturnsFirstValue ==
  \A t \in threads :
    (SecondOfTwo(t) /\ prev[t].result # <<>> /\ pc[t] = "done") =>
      /\ Requests(trace[t]) = 0
      /\ result[t] = prev[t].result

\* C7: when a call with caching enabled has returned a non-empty translation
\* that a request gave it, cache.get for its (text, source_lang) yields that
\* translation.
C7_ReturnedTranslationIsCached ==
  \A t \in threads :
    (pc[t] = "done" /\ args[t].use_cache /\ Count(trace[t], "ok") = 1
       /\ result[t] # <<>>) =>
      get(index[inst[t]], files, args[t].text, args[t].source_lang)
        = Some(result[t])

Kinds(tr) == [k \in 1..Len(tr) |-> tr[k].e]
Waits(tr, kind) == [k \in 1..Count(tr, kind) |-> Only(tr, {kind})[k].d]

\* The first two requests of t's call failed with a 429 error and the third
\* succeeded.
TwoQuotaErrorsThenOk(t) ==
  /\ Kinds(Only(trace[t], {"request", "error", "ok"}))
       = <<"request", "error", "request", "error", "request", "ok">>
  /\ errs[t] = {"quota"}

\* The text of the response that ended t's call.
OkText(t) == Only(trace[t], {"ok"})[1].s

\* The cache directory and the index hold text for the arguments of t's call.
CacheHolds(t, text) ==
  LET key == CacheKey(args[t].text, args[t].source_lang) IN
    /\ key \in DOMAIN index[inst[t]]
    /\ diskIndex.json /\ key \in DOMAIN diskIndex.index
    /\ files[key] = Some(WriteText(text))

\* What C8 concludes: three requests, backoff waits of 40 s then 70 s and no
\* other, the third response's text returned, and the cache holding it.
TwoBackoffsThenStored(t) ==
  /\ pc[t] = "done"
  /\ Requests(trace[t]) = 3
  /\ Waits(trace[t], "backoff") = <<40, 70>>
  /\ result[t] = OkText(t)
  /\ CacheHolds(t, OkText(t))

\* C8 as stated: a call whose first two requests fail with 429 and whose
\* third succeeds makes three requests, backs off 40 s then 70 s, returns the
\* third response's text and leaves it in the cache.
C8_TwoBackoffsThenCachePopulated ==
  \A t \in threads : TwoQuotaErrorsThenOk(t) => TwoBackoffsThenStored(t)

\* C8, amended: the same, for a call with caching enabled whose third
\* response carries a non-empty text.
C8_TwoBackoffsThenCachePopulatedWhenCaching ==
  \A t \in threads :
    (TwoQuotaErrorsThenOk(t) /\ args[t].use_cache /\ OkText(t) # <<>>) =>
      TwoBackoffsThenStored(t)

C8_Witness ==
  /\ TwoQuotaErrorsThenOk(1)
  /\ args[1].use_cache
  /\ OkText(1) = <<"B", CR, LF, "C">>
  /\ files[CacheKey(Deus, "la")] = Some(<<"B", CR, LF, "C">>)

\* C9: of two threads that call translate in one process, at most one has a
\* request outstanding, and both are throttled by one last-request clock.
C9_OneOutstandingRequestOneClock ==
  /\ Cardinality({t \in threads : pc[t] = "requesting"}) <= 1
  /\ \A t, u \in threads : sinceReq[inst[t]] = sinceReq[inst[u]]

\* C10: get(text, source_lang) returns the translation of the most recent
\* put for that pair, and None when there has been none.
C10_GetReturnsLastPut ==
  got # NoGet => got.value = lastPut[got.text, got.source_lang]

(* ---------------- cache entries over a caller's lifetime -------------- *)

\* The service words its English differently from one request to the next.
OtherTranslation == <<"A", "A">>

\* What the caller stores itself: nothing worth the name, or its own wording.
OwnTranslations == { <<>>, <<"D", CR>> }

\* A caller that translates and also stores translations of its own
\* (translate_assises.py reads the cache directly; put is public), never
\* while it is inside translate.
NextEntries ==
  \/ \E t \in Threads : StepAlone(t)
  \/ \E t \in Threads : pc[t] = "requesting" /\ respond(t, Some(OtherTranslation))
  \/ sleep
  \/ tick
  \/ /\ \A t \in threads : pc[t] \in {"idle", "done"}
     /\ \E text \in Texts, source_lang \in CallLangs, translation \in OwnTranslations :
          put(text, source_lang, translation)

SpecEntries == Init /\ [][NextEntries]_vars

\* The only cache of SpecEntries has an entry for key: index and file.
HasEntry(key) == key \in DOMAIN index[1] /\ files[key].some

\* key has an entry in the next state too, in memory, in index.json and on disk.
KeepsEntry(key) ==
  /\ key \in DOMAIN index'[1]
  /\ diskIndex'.json /\ key \in DOMAIN diskIndex'.index
  /\ files'[key].some

\* C11 as stated: over translate calls and direct puts, an entry once created
\* keeps its stored translation for ever and is never removed from the index
\* or from disk.
C11_EntriesAreImmutable ==
  [][\A key \in Keys :
       HasEntry(key) => (KeepsEntry(key) /\ files'[key] = files[key])]_vars

\* C11, amended: an entry once created is never removed from the index or
\* from disk, and no step of Translator.translate changes a stored non-empty
\* translation; only a direct put for the same key replaces it.
C11_EntriesNeverRemovedNorRetranslated ==
  [][\A key \in Keys :
       HasEntry(key) =>
         /\ KeepsEntry(key)
         /\ (pc' # pc /\ files[key].v # <<>>) => files'[key] = files[key]
         /\ files'[key] # files[key] =>
              \E text \in Texts, source_lang \in CallLangs :
                /\ key = CacheKey(text, source_lang)
                /\ (pc' = pc \/ files[key].v = <<>>)]_vars

\* translate made the entry of Rex with one translation, a direct put then
\* replaced it, and the entry of Deus is as translate stored it.
C11_Witness ==
  /\ pc[1] = "done"
  /\ HasEntry(CacheKey(Rex, "la"))
  /\ HasEntry(CacheKey(Deus, "la"))
  /\ lastPut[Rex, "la"] = Some(<<"D", CR>>)
  /\ files[CacheKey(Rex, "la")] = Some(<<"D", CR>>)
  /\ lastPut[Deus, "la"] = None
  /\ files[CacheKey(Deus, "la")] = Some(OtherTranslation)

(* -------------- two processes on one cache directory ------------------ *)

\* json.loads of a text that is no JSON
JSONDecodeError == "JSONDecodeError"

\* put calls of the two processes in one behaviour
MaxPuts == 3

\* What the processes put: a translation, and a longer one.
ProcessTranslations == { <<"A">>, <<"A", "A">> }

\* Two processes, each the one thread of its own TranslationCache.
InitProcesses == InitWith({1, 2}, [t \in Threads |-> t])

\* translation.py:24-34: process i opens its TranslationCache on the directory
\* anew.
open_cache(i) ==
  /\ putting[i].pc = "no"
  /\ diskIndex.json
  /\ index' = [index EXCEPT ![i] = diskIndex.index]
  /\ UNCHANGED << files, diskIndex, cacheUser, callerVars, translatorVars >>

\* translation.py:28-33: json.loads raises on an index.json that another
\* process is writing, or left cut short; no TranslationCache results.
open_cache_raises(i) ==
  /\ putting[i].pc = "no"
  /\ ~diskIndex.json
  /\ got' = [text |-> <<>>, source_lang |-> "", value |-> None,
             error |-> JSONDecodeError]
  /\ UNCHANGED << files, index, diskIndex, lastPut, reader, callerVars, translatorVars >>

\* translation.py:55-58: process i calls put of its TranslationCache; calls
\* counts the puts.
put_by(i, text, source_lang, translation) ==
  /\ i \in threads
  /\ pc[i] = "idle"
  /\ putting[i].pc = "no"
  /\ calls < MaxPuts
  /\ calls' = calls + 1
  /\ putting' = [putting EXCEPT ![i] = PutCalled(text, source_lang, translation)]
  /\ UNCHANGED << files, index, diskIndex, client, sinceReq, pc, args, attempt,
                  sleepLeft, result, trace, errs, snap, prev, sinceDisp, gap,
                  callerVars, cacheUser >>

\* translation.py:65: the put of process i returns
put_by_returns(i) ==
  /\ i \in threads
  /\ pc[i] = "idle"
  /\ putting[i].pc = "returned"
  /\ lastPut' = [lastPut EXCEPT ![putting[i].text, putting[i].source_lang] =
                   Some(putting[i].translation)]
  /\ putting' = [putting EXCEPT ![i] = NoPut]
  /\ UNCHANGED << files, index, diskIndex, got, reader, client, sinceReq, pc, args,
                  attempt, sleepLeft, result, trace, errs, snap, prev,
                  sinceDisp, gap, calls, callerVars >>

\* translation.py:24-34: a further process constructs a TranslationCache,
\* which reads index.json
reopen ==
  /\ diskIndex.json
  /\ reader' = Some(diskIndex.index)
  /\ UNCHANGED << files, index, diskIndex, got, lastPut, callerVars, translatorVars >>

\* translation.py:28-33: json.loads raises on an index.json that a process is
\* writing; the further process has no TranslationCache
reopen_raises ==
  /\ ~diskIndex.json
  /\ reader' = None
  /\ got' = [text |-> <<>>, source_lang |-> "", value |-> None,
             error |-> JSONDecodeError]
  /\ UNCHANGED << files, index, diskIndex, lastPut, callerVars, translatorVars >>

\* translation.py:46-53: the further process calls get of the TranslationCache
\* it opened, whenever that was: the key is looked up in the index read then,
\* the file is read now
get_reopened(text, source_lang) ==
  /\ reader.some
  /\ got' = [text |-> text, source_lang |-> source_lang,
             value |-> get(reader.v, files, text, source_lang), error |-> ""]
  /\ UNCHANGED << files, index, diskIndex, lastPut, reader, callerVars,
                  translatorVars >>

\* The processes take turns between any two steps, also inside put.
NextProcesses ==
  \/ \E i \in Instances : open_cache(i)
  \/ \E i \in Instances : open_cache_raises(i)
  \/ \E i \in Instances, text \in Texts, source_lang \in CallLangs,
        translation \in ProcessTranslations :
       put_by(i, text, source_lang, translation)
  \/ \E i \in Instances : PutSteps(i)
  \/ \E i \in Instances : put_by_returns(i)
  \/ reopen
  \/ reopen_raises
  \/ \E text \in Texts, source_lang \in CallLangs : get_reopened(text, source_lang)

SpecProcesses == InitProcesses /\ [][NextProcesses]_vars

\* No process is inside a put.
NoPutInProgress == \A i \in Instances : putting[i].pc = "no"

\* C12: with each of two processes holding its own TranslationCache on one
\* directory, index.json between their puts is the index of one of them alone
\* (the last to write), never the union, and a cache opened on the directory,
\* now or by a further process earlier, returns None for every key that
\* index.json lacked when it was opened, whether the key's file exists or
\* not. (The witness is the interleaving the claim says exists.)
C12_IndexFileIsLastWritersIndex ==
  /\ NoPutInProgress =>
       /\ diskIndex.json
       /\ diskIndex.index \in {index[i] : i \in Instances}
  /\ \A text \in Texts, source_lang \in CallLangs :
       (diskIndex.json
          /\ CacheKey(text, source_lang) \notin DOMAIN diskIndex.index) =>
         get(diskIndex.index, files, text, source_lang) = None
  /\ \A text \in Texts, source_lang \in CallLangs :
       (reader.some /\ CacheKey(text, source_lang) \notin DOMAIN reader.v) =>
         get(reader.v, files, text, source_lang) = None

\* Both processes have put, index.json has lost the key of Rex, whose file
\* is there, and the cache a further process opened afterwards has returned
\* None for it.
C12_Witness ==
  /\ NoPutInProgress
  /\ reader = Some(diskIndex.index)
  /\ lastPut[Rex, "la"] = Some(<<"A">>)
  /\ lastPut[Deus, "la"] = Some(<<"A", "A">>)
  /\ files[CacheKey(Rex, "la")] = Some(<<"A">>)
  /\ CacheKey(Rex, "la") \in DOMAIN index[1]
  /\ diskIndex.json
  /\ CacheKey(Rex, "la") \notin DOMAIN diskIndex.index
  /\ CacheKey(Deus, "la") \in DOMAIN diskIndex.index
  /\ got = [text |-> Rex, source_lang |-> "la", value |-> None, error |-> ""]

(* ------------------- MultilingualIngestor.chunk_text ------------------ *)

\* the longest text chunked
MaxLen == 4
\* the largest chunk_size and overlap an ingestor is constructed with
MaxSize == 3

\* Iterations after which a loop that makes no progress is left alone; a
\* loop that advances needs at most MaxLen of them.
MaxSteps == MaxLen + 2

TAB == "\t"
\* str.strip() without arguments removes these (and the rarer str.isspace
\* characters, which the texts below do not contain).
Whitespace == {" ", LF, CR, TAB}

Alphabet == {"a", " ", LF}
Docs == UNION {[1..n -> Alphabet] : n \in 0..MaxLen}

\* s[a:b] of Python: negative bounds count from the end, all are clamped.
SliceBound(x, n) == IF x < 0 THEN Max(x + n, 0) ELSE Min(x, n)
Slice(s, a, b) == SubSeq(s, SliceBound(a, Len(s)) + 1, SliceBound(b, Len(s)))

\* str.strip()
Strip(s) ==
  LET inked == {k \in 1..Len(s) : s[k] \notin Whitespace} IN
    IF inked = {} THEN <<>>
    ELSE SubSeq(s, CHOOSE k \in inked : \A m \in inked : k <= m,
                   CHOOSE k \in inked : \A m \in inked : k >= m)

\* A loop that forgets the overlap.
NextStartNoOverlap(i, size, ov) == i + size

\* injest_v2.py:100  i += self.chunk_size - self.overlap
NextStart(i, size, ov) == i + size - ov

translationVars ==
  << translatorVars, index, diskIndex, files, cacheUser, threads, inst, apiKey >>

\* injest_v2.py:70-90: MultilingualIngestor(chunk_size=size, overlap=ov); the
\* two are stored as given.
construct(size, ov) ==
  /\ chunk_size = 0
  /\ chunk_size' = size
  /\ overlap' = ov
  /\ UNCHANGED << chunking, pipelineVars, translationVars >>

\* injest_v2.py:92-95
chunk_text(text) ==
  /\ chunk_size # 0
  /\ chunking.pc = "idle"
  /\ chunking' = [pc |-> "loop", text |-> text, i |-> 0, chunks |-> <<>>,
                  steps |-> 0]
  /\ UNCHANGED << chunk_size, overlap, pipelineVars, translationVars >>

\* injest_v2.py:96-100: one iteration of the while loop
chunk_text_loop ==
  LET part == Strip(Slice(chunking.text, chunking.i, chunking.i + chunk_size)) IN
  /\ chunking.pc = "loop"
  /\ chunking.i < Len(chunking.text)
  /\ chunking.steps < MaxSteps
  /\ chunking' = [chunking EXCEPT
                    !.chunks = IF part # <<>> THEN Append(@, part) ELSE @,
                    !.i = NextStart(@, chunk_size, overlap),
                    !.steps = @ + 1]
  /\ UNCHANGED << chunk_size, overlap, pipelineVars, translationVars >>

\* injest_v2.py:96, 101: the loop condition fails, chunks is returned
chunk_text_return ==
  /\ chunking.pc = "loop"
  /\ ~(chunking.i < Len(chunking.text))
  /\ chunking' = [chunking EXCEPT !.pc = "returned"]
  /\ UNCHANGED << chunk_size, overlap, pipelineVars, translationVars >>

NextChunk ==
  \/ \E size \in 1..MaxSize, ov \in 0..MaxSize : construct(size, ov)
  \/ \E text \in Docs : chunk_text(text)
  \/ chunk_text_loop
  \/ chunk_text_return

SpecChunk == Init /\ [][NextChunk]_vars

\* The body of chunk_text runs on once it has been entered.
SpecChunkFair == SpecChunk /\ WF_vars(chunk_text_loop \/ chunk_text_return)

\* C13: an ingestor with overlap >= chunk_size is not constructed and its
\* chunk_text neither runs nor returns a chunk list: the parameters are
\* refused with a configuration error.
C13_OverlapNotBelowChunkSizeRefused ==
  overlap >= chunk_size => (chunk_size = 0 /\ chunking.pc = "idle")

ValidChunking == chunk_size > 0 /\ 0 <= overlap /\ overlap < chunk_size

\* The windows the text is cut into: window k starts k*(chunk_size-overlap)
\* characters in, for every k that starts inside the text.
WindowCount(text) ==
  Cardinality({k \in 0..Len(text) : k * (chunk_size - overlap) < Len(text)})

Window(text, k) ==
  SubSeq(text, k * (chunk_size - overlap) + 1,
         Min(k * (chunk_size - overlap) + chunk_size, Len(text)))

TrimmedWindows(text) ==
  SelectSeq([k \in 1..WindowCount(text) |-> Strip(Window(text, k - 1))],
            LAMBDA w : w # <<>>)

\* C14: with chunk_size > 0 and 0 <= overlap < chunk_size, chunk_text
\* terminates, and what it returns is the sequence of the trimmed windows that
\* are not empty, in order; every chunk is non-empty and at most chunk_size
\* long.
C14_ChunksAreTheTrimmedWindows ==
  /\ []((ValidChunking /\ chunking.pc = "returned") =>
          /\ chunking.chunks = TrimmedWindows(chunking.text)
          /\ \A k \in 1..Len(chunking.chunks) :
               /\ chunking.chunks[k] # <<>>
               /\ Len(chunking.chunks[k]) <= chunk_size)
  /\ ((ValidChunking /\ chunking.pc = "loop") ~> (chunking.pc = "returned"))

\* A text of 4 cut with chunk_size 3 and overlap 2: windows start at 0, 1, 2
\* and 3, and the last, a blank, is dropped.
C14_Witness ==
  /\ chunking.pc = "returned"
  /\ chunk_size = 3 /\ overlap = 2
  /\ chunking.text = <<"a", " ", "a", " ">>
  /\ chunking.chunks = << <<"a", " ", "a">>, <<"a">>, <<"a">> >>

(* --------------------- MultilingualIngestor: files -------------------- *)

\* ingestion runs (processes) in one behaviour
MaxRuns == 2
\* injest_v2.py:134  {i:03d}
IdWidth == 3

Digits == {"0", "1", "2", "3", "4", "5", "6", "7", "8", "9"}
DigitOf == <<"0", "1", "2", "3", "4", "5", "6", "7", "8", "9">>

\* str(i) for i >= 0
RECURSIVE Decimal(_)
Decimal(n) ==
  IF n < 10 THEN <<DigitOf[n + 1]>>
  ELSE Decimal(n \div 10) \o <<DigitOf[(n % 10) + 1]>>

\* zero padding to a minimum width; longer numbers are left as they are
RECURSIVE ZeroPad(_, _)
ZeroPad(s, width) == IF Len(s) < width THEN ZeroPad(<<"0">> \o s, width) ELSE s

\* \w, for the ASCII characters
WordChars ==
  {UpperLetters[j] : j \in 1..Len(UpperLetters)}
    \cup {LowerLetters[j] : j \in 1..Len(LowerLetters)} \cup Digits \cup {"_"}

\* injest_v2.py:128  re.sub(r"[^\w\-]", "_", filepath.stem)
PrefixOf(stem) ==
  [k \in 1..Len(stem) |->
     IF stem[k] \in WordChars \cup {"-"} THEN stem[k] ELSE "_"]

\* injest_v2.py:134  f"{prefix}_chunk_{i:03d}"
ChunkId(prefix, i) ==
  prefix \o <<"_", "c", "h", "u", "n", "k", "_">> \o ZeroPad(Decimal(i), IdWidth)

\* A .txt file under data_dir: where it is, its stem, the value
\* extract_metadata_from_header finds on the language line of its header
\* (empty: none), what langdetect makes of the content (is_english,
\* detect_language), and the content that chunk_text cuts, which in the code
\* is the whole file, header included.
File(dir, stem, declared, english, detected, text) ==
  [ dir |-> dir, stem |-> stem, declared |-> declared, english |-> english,
    detected |-> detected, text |-> text ]

LatinDoc ==
  File("raw/a", <<"d", "o", "c">>, <<"L", "a", "t", "i", "n">>, FALSE, "hr",
       <<"r", "e", " ">>)
EnglishDoc ==
  File("raw/b", <<"d", "o", "c">>, <<>>, TRUE, "en", <<"a", "b">>)
GermanDoc ==
  File("raw", <<"m", "y", " ", "d", "o", "c">>, <<"d", "e">>, TRUE, "en", <<"x">>)
FrenchDoc ==
  File("raw", <<"m", "y", "_", "d", "o", "c">>, <<>>, FALSE, "fr", <<"y", "z">>)

ChronicleDoc ==
  File("raw", <<"c", "h", "r">>, <<>>, TRUE, "en", <<"k">>)

\* data_dir
DataDir == "raw"

\* The orders of the members of a set.
Orders(S) ==
  {p \in [1..Cardinality(S) -> S] : \A j, k \in 1..Cardinality(S) : p[j] = p[k] => j = k}

\* injest_v2.py:153  list(self.data_dir.rglob("*.txt")): the files of a
\* directory come before those of its subdirectories and the files of one
\* directory come together; within that, the order is the file system's.
rglob(fs) ==
  {p \in Orders(fs) :
     /\ \A j, k \in 1..Len(p) :
          (j < k /\ p[k].dir = DataDir) => p[j].dir = DataDir
     /\ \A j, k, m \in 1..Len(p) :
          (j < k /\ k < m /\ p[j].dir = p[m].dir) => p[k].dir = p[j].dir}

\* What data_dir may hold.
Corpora ==
  { {LatinDoc}, {LatinDoc, EnglishDoc}, {GermanDoc, FrenchDoc},
    {EnglishDoc, GermanDoc}, {LatinDoc, FrenchDoc} }

\* (chunk_size, overlap) of the ingestors constructed: the defaults 2000 and
\* 300 scaled down, and a chunking without overlap.
IngestorParams == { <<2, 1>>, <<3, 0>> }

\* injest_v2.py:92-101, for parameters with which the loop ends
RECURSIVE chunk_text_from(_, _, _, _, _)
chunk_text_from(text, i, size, ov, acc) ==
  IF i < Len(text)
  THEN LET part == Strip(Slice(text, i, i + size)) IN
         chunk_text_from(text, NextStart(i, size, ov), size, ov,
                         IF part # <<>> THEN Append(acc, part) ELSE acc)
  ELSE acc

\* injest_v2.py:112-125
ResolveLanguage(declared, english, detected, has_translator) ==
  LET declared_lang == Lower(declared) IN
    IF declared_lang \in {<<"l", "a">>, <<"l", "a", "t", "i", "n">>} THEN "la"
    ELSE IF declared_lang \in {<<"a", "r">>, <<"a", "r", "a", "b", "i", "c">>} THEN "ar"
    ELSE IF declared_lang \in {<<"e", "l">>, <<"g", "r", "e", "e", "k">>} THEN "el"
    ELSE IF declared_lang \in {<<"f", "r">>, <<"f", "r", "e", "n", "c", "h">>} THEN "fr"
    ELSE IF english THEN "en"
    ELSE IF has_translator THEN detected ELSE "en"

\* injest_v2.py:103-149
load_file(f, size, ov, has_translator) ==
  LET lang == ResolveLanguage(f.declared, f.english, f.detected, has_translator)
      prefix == PrefixOf(f.stem)
      raw_chunks == chunk_text_from(f.text, 0, size, ov, <<>>)
  IN [i \in 1..Len(raw_chunks) |->
        [ chunk_id |-> ChunkId(prefix, i - 1),
          source |-> <<f.dir, f.stem>>,
          text |-> raw_chunks[i],
          language |-> lang,
          is_translation |-> FALSE,
          original_language |-> None,
          original_text |-> None ]]

RECURSIVE LoadAll(_, _, _, _)
LoadAll(fs, size, ov, has_translator) ==
  IF fs = <<>> THEN <<>>
  ELSE load_file(Head(fs), size, ov, has_translator)
         \o LoadAll(Tail(fs), size, ov, has_translator)

translatorSide == << translationVars, chunking >>

\* A translate_chunks call is in its loop.
InPass == passed.pc \in {"loop", "calling"}

\* What the construction of an ingestor leaves alone of the translator's side.
besidesTranslator ==
  << pc, args, attempt, sleepLeft, result, trace, errs, snap, putting, prev,
     sinceDisp, gap, calls, diskIndex, files, cacheUser, threads, inst, apiKey,
     chunking >>

\* injest_v2.py:70-90, 273-307: a new process constructs its ingestor; a save
\* the process before it had not finished stays unfinished. With
\* translate_non_english it constructs a Translator (translation.py:71-79,
\* 24-34): no client, last_request_time 0, the index that index.json holds.
new_run(size, ov, found, translate_non_english) ==
  /\ run < MaxRuns
  /\ translate_non_english => diskIndex.json
  /\ IF translate_non_english
     THEN /\ client' = [client EXCEPT ![1] = FALSE]
          /\ sinceReq' = [sinceReq EXCEPT ![1] = Horizon]
          /\ index' = [index EXCEPT ![1] = diskIndex.index]
     ELSE UNCHANGED << client, sinceReq, index >>
  /\ run' = run + 1
  /\ chunk_size' = size
  /\ overlap' = ov
  /\ dataDir' = found
  /\ translating' = translate_non_english
  /\ chunks' = <<>>
  /\ embeddings' = None
  /\ faissIndex' = None
  /\ saving' = "no"
  /\ ops' = 0
  /\ passed' = NoPass
  /\ UNCHANGED << savedIndex, savedChunks, savedConfig, retriever, numbering,
                  results, besidesTranslator >>

\* injest_v2.py:151-167
load_files ==
  /\ run > 0 /\ saving = "no" /\ ~InPass /\ ops < MaxOps
  /\ ops' = ops + 1
  /\ chunks' = chunks \o LoadAll(dataDir,
                                 chunk_size, overlap, translating)
  /\ UNCHANGED << chunk_size, overlap, dataDir, translating, embeddings,
                  faissIndex, saving, savedIndex, savedChunks, savedConfig, run,
                  retriever, numbering, passed, results, translatorSide >>

\* A translation stored without its flag.
TranslatedUnflagged(chunk, translated) ==
  [chunk EXCEPT !.original_text = Some(chunk.text),
                !.text = translated,
                !.original_language = Some(chunk.language)]

\* A translation stored as an English chunk.
TranslatedRelabelled(chunk, translated) ==
  [chunk EXCEPT !.original_text = Some(chunk.text),
                !.text = translated,
                !.is_translation = TRUE,
                !.language = "en",
                !.original_language = Some(chunk.language)]

\* injest_v2.py:195-206
Translated(chunk, translated) ==
  [chunk EXCEPT !.original_text = Some(chunk.text),
                !.text = translated,
                !.is_translation = TRUE,
                !.original_language = Some(chunk.language)]

\* A loop that stores whatever translate returned.
StoreTranslationUnchecked(chunk, translated) == Translated(chunk, translated)

\* injest_v2.py:201-207: if translated: ...
StoreTranslation(chunk, translated) ==
  IF translated # <<>> THEN Translated(chunk, translated) ELSE chunk

\* A selection that takes no notice of max_chunks.
ToTranslateUnlimited(max_chunks) ==
  {k \in 1..Len(chunks) : chunks[k].language # "en"}

\* injest_v2.py:180-188: the positions in self.chunks of the chunks to translate
ToTranslate(max_chunks) ==
  LET non_english == {k \in 1..Len(chunks) : chunks[k].language # "en"} IN
    IF max_chunks # 0 /\ max_chunks < Cardinality(non_english)
    THEN {k \in non_english :
            Cardinality({m \in non_english : m <= k}) <= max_chunks}
    ELSE non_english

\* The members of a set of numbers in ascending order.
RECURSIVE Ascending(_)
Ascending(S) ==
  IF S = {} THEN <<>>
  ELSE LET least == CHOOSE x \in S : \A y \in S : x <= y
       IN <<least>> \o Ascending(S \ {least})

\* What translate_chunks leaves alone of the ingestor and of its callers.
besidesPass ==
  << chunk_size, overlap, chunking, dataDir, translating, embeddings, faissIndex,
     saving, savedIndex, savedChunks, savedConfig, run, retriever, numbering,
     results >>

\* injest_v2.py:169-192; max_chunks = 0 stands for None. The call returns at
\* once without a translator or without a chunk to translate, and goes into
\* its loop otherwise.
translate_chunks(max_chunks) ==
  /\ run > 0 /\ saving = "no" /\ ~InPass /\ ops < MaxOps
  /\ IF translating /\ ToTranslate(max_chunks) # {}
     THEN /\ passed' = [NoPass EXCEPT !.pc = "loop", !.max_chunks = max_chunks,
                                      !.positions = Ascending(ToTranslate(max_chunks))]
          /\ ops' = ops
     ELSE /\ passed' = IF translating
                       THEN [NoPass EXCEPT !.pc = "returned", !.max_chunks = max_chunks]
                       ELSE NoPass
          /\ ops' = ops + 1
  /\ UNCHANGED << chunks, besidesPass, translatorSide >>

\* injest_v2.py:194-199: the loop hands the text and the language of its next
\* chunk to self.translator.translate
translate_chunks_translate ==
  LET k == passed.positions[passed.at + 1] IN
  /\ passed.pc = "loop"
  /\ translate_call(1, chunks[k].text, chunks[k].language, TRUE)
  /\ passed' = [passed EXCEPT !.pc = "calling"]
  /\ UNCHANGED << calls, threads, inst, apiKey, chunks, ops, besidesPass >>

\* injest_v2.py:199-210: translate has returned; if translated: the chunk
\* takes the translation; the loop goes on, or the call returns
translate_chunks_store ==
  LET k == passed.positions[passed.at + 1]
      translated == result[1]
      last == passed.at + 1 = Len(passed.positions)
  IN
  /\ passed.pc = "calling" /\ pc[1] = "done"
  /\ chunks' = [chunks EXCEPT ![k] = StoreTranslation(@, translated)]
  /\ passed' = [passed EXCEPT !.pc = IF last THEN "returned" ELSE "loop",
                              !.at = @ + 1,
                              !.failed = IF translated = <<>> THEN @ \cup {k} ELSE @]
  /\ ops' = IF last THEN ops + 1 ELSE ops
  /\ UNCHANGED << besidesPass, translatorSide >>

\* injest_v2.py:194-199, translation.py:142-146: translate raises for the next
\* chunk, on a cache file it cannot read; the loop has no try, so the
\* exception leaves translate_chunks and its caller with the chunks before
\* that one processed.
translate_chunks_raises ==
  LET k == passed.positions[passed.at + 1] IN
  /\ passed.pc = "loop"
  /\ translate_call_raises(1, chunks[k].text, chunks[k].language)
  /\ passed' = [passed EXCEPT !.pc = "raised", !.raised = TRUE,
                              !.failed = @ \cup {k}]
  /\ UNCHANGED << calls, threads, inst, apiKey, chunks, ops, besidesPass >>

\* The steps of the translate call that translate_chunks waits for, its
\* sleeps included; the service answers with a text or with none.
TranslateSteps ==
  \/ _rate_limit(1)
  \/ _rate_limit_wake(1)
  \/ _rate_limit_stamp(1)
  \/ dispatch(1)
  \/ /\ pc[1] = "requesting"
     /\ \E r \in {Some(<<>>), Some(ServiceTranslation(args[1].text))} : respond(1, r)
  \/ sleep

\* translate_chunks once it is in its loop.
PassSteps ==
  \/ translate_chunks_translate
  \/ InPass /\ TranslateSteps
  \/ translate_chunks_store

(* ------------- MultilingualIngestor: index and snapshot --------------- *)

\* The vector model.encode gives a text: a function of the text alone.
Embed(text) == [of |-> text]

\* injest_v2.py:212-223
embed_chunks ==
  /\ run > 0 /\ saving = "no" /\ ~InPass /\ ops < MaxOps
  /\ ops' = ops + 1
  /\ embeddings' = Some([k \in 1..Len(chunks) |-> Embed(chunks[k].text)])
  /\ UNCHANGED << chunk_size, overlap, dataDir, translating, chunks, faissIndex,
                  saving, savedIndex, savedChunks, savedConfig, run, retriever, numbering,
                  passed, results, translatorSide >>

\* injest_v2.py:225-230; shape[1] fails on None and on an empty array
build_index ==
  /\ run > 0 /\ saving = "no" /\ ~InPass /\ ops < MaxOps
  /\ embeddings.some /\ embeddings.v # <<>>
  /\ ops' = ops + 1
  /\ faissIndex' = Some(embeddings.v)
  /\ UNCHANGED << chunk_size, overlap, dataDir, translating, chunks, embeddings,
                  saving, savedIndex, savedChunks, savedConfig, run, retriever, numbering,
                  passed, results, translatorSide >>

\* A file of index_dir that its writer has opened, and so emptied, and not
\* yet closed: it is there, and no reader can make anything of it.
Unwritten(r) == [run |-> r, whole |-> FALSE]

\* injest_v2.py:234-237: save() starts, write_index opens faiss.index
save_index_open ==
  /\ run > 0 /\ saving = "no" /\ ~InPass
  /\ faissIndex.some
  /\ savedIndex' = Some(Unwritten(run))
  /\ saving' = "index_open"
  /\ UNCHANGED << chunk_size, overlap, dataDir, translating, chunks, embeddings,
                  faissIndex, savedChunks, savedConfig, run, ops, retriever, numbering,
                  passed, results, translatorSide >>

\* injest_v2.py:237: write_index has written faiss.index
save_index ==
  /\ saving = "index_open"
  /\ savedIndex' = Some([run |-> run, whole |-> TRUE, vectors |-> faissIndex.v])
  /\ saving' = "index_written"
  /\ UNCHANGED << chunk_size, overlap, dataDir, translating, chunks, embeddings,
                  faissIndex, savedChunks, savedConfig, run, ops, retriever, numbering,
                  passed, results, translatorSide >>

\* injest_v2.py:240: open(chunks.json, "w")
save_chunks_open ==
  /\ saving = "index_written"
  /\ savedChunks' = Some(Unwritten(run))
  /\ saving' = "chunks_open"
  /\ UNCHANGED << chunk_size, overlap, dataDir, translating, chunks, embeddings,
                  faissIndex, savedIndex, savedConfig, run, ops, retriever, numbering,
                  passed, results, translatorSide >>

\* injest_v2.py:241: json.dump has written chunks.json
save_chunks ==
  /\ saving = "chunks_open"
  /\ savedChunks' = Some([run |-> run, whole |-> TRUE, chunks |-> chunks])
  /\ saving' = "chunks_written"
  /\ UNCHANGED << chunk_size, overlap, dataDir, translating, chunks, embeddings,
                  faissIndex, savedIndex, savedConfig, run, ops, retriever, numbering,
                  passed, results, translatorSide >>

\* injest_v2.py:244-251: open(config.json, "w")
save_config_open ==
  /\ saving = "chunks_written"
  /\ savedConfig' = Some(Unwritten(run))
  /\ saving' = "config_open"
  /\ UNCHANGED << chunk_size, overlap, dataDir, translating, chunks, embeddings,
                  faissIndex, savedIndex, savedChunks, run, ops, retriever, numbering,
                  passed, results, translatorSide >>

\* injest_v2.py:252-254: json.dump has written config.json, save() returns
save_config ==
  /\ saving = "config_open"
  /\ savedConfig' = Some([run |-> run, whole |-> TRUE, chunk_size |-> chunk_size,
                          overlap |-> overlap, total_chunks |-> Len(chunks)])
  /\ saving' = "no"
  /\ UNCHANGED << chunk_size, overlap, dataDir, translating, chunks, embeddings,
                  faissIndex, savedIndex, savedChunks, run, ops, retriever, numbering,
                  passed, results, translatorSide >>

ingestorVars ==
  << chunk_size, overlap, dataDir, translating, chunks, embeddings, faissIndex,
     saving, savedIndex, savedChunks, savedConfig, run, ops >>

\* A test that finds every file.
ExistsUnchecked(file) == TRUE

\* retrieve_v2.py:32, 38: Path.exists
Exists(file) == file.some

\* A file that a reader can make something of: it is there and its writer has
\* finished it.
Whole(file) == file.some /\ file.v.whole

\* retrieve_v2.py:33, 39: the FileNotFoundError and the path in its message
FileNotFoundError(path) == [type |-> "FileNotFoundError", path |-> path]

\* retrieve_v2.py:34, 40-41: what faiss.read_index (a RuntimeError) and
\* json.load (a JSONDecodeError) raise on a file that is not whole
ReadError(type, path) == [type |-> type, path |-> path]

\* retrieve_v2.py:30-34: Retriever.__init__ reads faiss.index
retriever_load_index ==
  /\ retriever.pc \in {"none", "constructed", "failed"}
  /\ Exists(savedIndex)
  /\ Whole(savedIndex)
  /\ retriever' = [ pc |-> "index_loaded", index |-> savedIndex, chunks |-> None,
                    error |-> None ]
  /\ UNCHANGED << ingestorVars, numbering, passed, results, translatorSide >>

\* retrieve_v2.py:31-33: faiss.index is not there, __init__ raises
retriever_index_not_found ==
  /\ retriever.pc \in {"none", "constructed", "failed"}
  /\ ~Exists(savedIndex)
  /\ retriever' = [ pc |-> "failed", index |-> None, chunks |-> None,
                    error |-> Some(FileNotFoundError("faiss.index")) ]
  /\ UNCHANGED << ingestorVars, numbering, passed, results, translatorSide >>

\* retrieve_v2.py:34: faiss.index is being written, or was left unfinished;
\* read_index raises
retriever_index_unreadable ==
  /\ retriever.pc \in {"none", "constructed", "failed"}
  /\ Exists(savedIndex)
  /\ ~Whole(savedIndex)
  /\ retriever' = [ pc |-> "failed", index |-> None, chunks |-> None,
                    error |-> Some(ReadError("RuntimeError", "faiss.index")) ]
  /\ UNCHANGED << ingestorVars, numbering, passed, results, translatorSide >>

\* retrieve_v2.py:36-41: Retriever.__init__ reads chunks.json
retriever_load_chunks ==
  /\ retriever.pc = "index_loaded"
  /\ Exists(savedChunks)
  /\ Whole(savedChunks)
  /\ retriever' = [retriever EXCEPT !.pc = "constructed", !.chunks = savedChunks]
  /\ UNCHANGED << ingestorVars, numbering, passed, results, translatorSide >>

\* retrieve_v2.py:37-39: chunks.json is not there, __init__ raises
retriever_chunks_not_found ==
  /\ retriever.pc = "index_loaded"
  /\ ~Exists(savedChunks)
  /\ retriever' = [ pc |-> "failed", index |-> None, chunks |-> None,
                    error |-> Some(FileNotFoundError("chunks.json")) ]
  /\ UNCHANGED << ingestorVars, numbering, passed, results, translatorSide >>

\* retrieve_v2.py:40-41: chunks.json is being written, or was left unfinished;
\* json.load raises
retriever_chunks_unreadable ==
  /\ retriever.pc = "index_loaded"
  /\ Exists(savedChunks)
  /\ ~Whole(savedChunks)
  /\ retriever' = [ pc |-> "failed", index |-> None, chunks |-> None,
                    error |-> Some(ReadError("JSONDecodeError", "chunks.json")) ]
  /\ UNCHANGED << ingestorVars, numbering, passed, results, translatorSide >>

\* save(), one step of it once it has started
SaveSteps ==
  \/ save_index
  \/ save_chunks_open
  \/ save_chunks
  \/ save_config_open
  \/ save_config

\* Retriever.__init__, one step of it
RetrieverSteps ==
  \/ retriever_load_index
  \/ retriever_index_not_found
  \/ retriever_index_unreadable
  \/ retriever_load_chunks
  \/ retriever_chunks_not_found
  \/ retriever_chunks_unreadable

\* The process of an ingestion run: GEMINI_API_KEY is set, the cache
\* directory is empty.
InitIngest == Init /\ apiKey

\* One ingestion run whose caller uses the public operations in any order.
NextIngest ==
  \/ /\ run = 0
     /\ \E p \in IngestorParams, corpus \in Corpora, translate_non_english \in BOOLEAN :
          \E found \in rglob(corpus) :
            new_run(p[1], p[2], found, translate_non_english)
  \/ load_files
  \/ \E max_chunks \in {0, 1} : translate_chunks(max_chunks)
  \/ PassSteps
  \/ embed_chunks
  \/ build_index
  \/ save_index_open
  \/ SaveSteps

SpecIngest == InitIngest /\ [][NextIngest]_vars

\* injest_v2.py:256-269: run(skip_translation=True) up to the call of save
run_until_save ==
  LET loaded == chunks \o LoadAll(dataDir,
                                  chunk_size, overlap, translating)
      vectors == [k \in 1..Len(loaded) |-> Embed(loaded[k].text)]
  IN
  /\ run > 0 /\ saving = "no" /\ ops = 0
  /\ ops' = 3
  /\ chunks' = loaded
  /\ embeddings' = Some(vectors)
  /\ faissIndex' = Some(vectors)
  /\ UNCHANGED << chunk_size, overlap, dataDir, translating, saving, savedIndex,
                  savedChunks, savedConfig, run, retriever, numbering, passed,
                  results, translatorSide >>

\* Ingestion runs one after the other on one index_dir, each of them run(),
\* and retrieval sessions that start whenever they like.
NextSnapshot ==
  \/ \E p \in IngestorParams, corpus \in Corpora :
       \E found \in rglob(corpus) : new_run(p[1], p[2], found, FALSE)
  \/ run_until_save
  \/ save_index_open
  \/ SaveSteps
  \/ RetrieverSteps

SpecSnapshot == InitIngest /\ [][NextSnapshot]_vars

(* ------------------ Claims on the ingestion pipeline ------------------ *)

\* translation.py:224-232: what Translator.translate_chunks makes of one chunk;
\* no caller of it exists in the repository.
Translator_translate_chunk(chunk, translation, source_lang) ==
  [ chunk_id |-> chunk.chunk_id, source |-> chunk.source, text |-> chunk.text,
    language |-> chunk.language, original_text |-> chunk.original_text,
    translated_text |-> translation,
    original_language |-> Some(source_lang),
    is_translation |-> FALSE ]

WellFormedChunk(c) ==
  \/ /\ c.is_translation = FALSE
     /\ c.original_text = None
  \/ /\ c.is_translation = TRUE
     /\ c.original_text # None
     /\ c.original_language # None

\* C15: after every operation of the pipeline (load_files, translate_chunks
\* whatever the translations that succeeded, save) each chunk in memory, and
\* each chunk of a written chunks.json, is either an original (is_translation
\* false, original_text null) or a translation (is_translation true,
\* original_text and original_language set); so is a chunk that load_file
\* made, put through Translator.translate_chunks.
C15_ChunksAreOriginalsOrTranslations ==
  /\ \A k \in 1..Len(chunks) :
       /\ WellFormedChunk(chunks[k])
       /\ chunks[k].is_translation = FALSE =>
            \A translation \in {<<>>, EnglishOf(chunks[k].text)} :
              WellFormedChunk(Translator_translate_chunk(
                  chunks[k], translation, chunks[k].language))
  /\ Whole(savedChunks) =>
       \A k \in 1..Len(savedChunks.v.chunks) :
         WellFormedChunk(savedChunks.v.chunks[k])

\* A snapshot saved with two Latin chunks of which one was translated and the
\* other's translation failed.
C15_Witness ==
  /\ saving = "no" /\ savedConfig.some /\ savedChunks.some
  /\ savedConfig.v.run = run /\ savedChunks.v.run = run
  /\ Len(savedChunks.v.chunks) = 2
  /\ savedChunks.v.chunks[1].is_translation = TRUE
  /\ savedChunks.v.chunks[1].original_text = Some(<<"r", "e">>)
  /\ savedChunks.v.chunks[1].original_language = Some("la")
  /\ savedChunks.v.chunks[2].is_translation = FALSE
  /\ savedChunks.v.chunks[2].language = "la"
  /\ savedChunks.v.chunks[2].original_text = None

\* One load_files has run on the ingestor and found chunks.
LoadedOnce ==
  /\ run > 0 /\ chunks # <<>>
  /\ Len(chunks) = Len(LoadAll(dataDir,
                               chunk_size, overlap, translating))

\* C16: after one load_files over the .txt files under data_dir, files of the
\* same stem in different subdirectories and stems that differ only in
\* replaced characters included, no two chunks have the same chunk_id.
C16_ChunkIdsUniqueInCorpus ==
  LoadedOnce =>
    \A j, k \in 1..Len(chunks) :
      chunks[j].chunk_id = chunks[k].chunk_id => j = k

(* ---------------- load_file numbering a long document ----------------- *)

\* chunks of one document
MaxSeq == 1001

\* injest_v2.py:132-134: the loop over raw_chunks gives the next chunk of the
\* document its id; the document is chosen when the loop starts.
number_chunk(f) ==
  /\ numbering.i < MaxSeq
  /\ numbering.i = 0 \/ numbering.prefix = PrefixOf(f.stem)
  /\ numbering' = [ i |-> numbering.i + 1,
                    prefix |-> PrefixOf(f.stem),
                    last |-> numbering.chunk_id,
                    chunk_id |-> Some(ChunkId(PrefixOf(f.stem), numbering.i)) ]
  /\ UNCHANGED << ingestorVars, retriever, passed, results, translatorSide >>

NextChunkIds == \E f \in {LatinDoc, GermanDoc} : number_chunk(f)

SpecChunkIds == Init /\ [][NextChunkIds]_vars

\* The characters of chunk ids in the order of their code points.
CodePointOrder ==
  <<"-">> \o DigitOf \o UpperLetters \o <<"_">> \o LowerLetters

CodePointRank(c) == CHOOSE k \in 1..Len(CodePointOrder) : CodePointOrder[k] = c

\* a < b for two Python strings
LexLess(a, b) ==
  \E k \in 1..(Min(Len(a), Len(b)) + 1) :
    /\ \A m \in 1..(k - 1) : a[m] = b[m]
    /\ \/ k > Len(a) /\ k <= Len(b)
       \/ /\ k <= Len(a) /\ k <= Len(b)
          /\ CodePointRank(a[k]) < CodePointRank(b[k])

\* C17: within one document, however many chunks it has, a chunk's id sorts
\* before the id of the chunk after it.
C17_IdsSortBySequenceNumber ==
  numbering.last # None => LexLess(numbering.last.v, numbering.chunk_id.v)

\* models.py:41-50: the codes of the language table, with the names the
\* headers use for them
DeclaredCode(declared) ==
  LET d == Lower(declared) IN
    IF d \in {<<"e", "n">>, <<"e", "n", "g", "l", "i", "s", "h">>} THEN "en"
    ELSE IF d \in {<<"l", "a">>, <<"l", "a", "t", "i", "n">>} THEN "la"
    ELSE IF d \in {<<"a", "r">>, <<"a", "r", "a", "b", "i", "c">>} THEN "ar"
    ELSE IF d \in {<<"e", "l">>, <<"g", "r", "e", "e", "k">>} THEN "el"
    ELSE IF d \in {<<"f", "r">>, <<"f", "r", "e", "n", "c", "h">>} THEN "fr"
    ELSE IF d \in {<<"h", "e">>, <<"h", "e", "b", "r", "e", "w">>} THEN "he"
    ELSE IF d \in {<<"i", "t">>, <<"i", "t", "a", "l", "i", "a", "n">>} THEN "it"
    ELSE IF d \in {<<"d", "e">>, <<"g", "e", "r", "m", "a", "n">>} THEN "de"
    ELSE "?"

\* The language by strict precedence: the declared one, then the English
\* heuristic, then detection, then "en".
LanguageByPrecedence(f, has_translator) ==
  IF f.declared # <<>> THEN DeclaredCode(f.declared)
  ELSE IF f.english THEN "en"
  ELSE IF has_translator THEN f.detected
  ELSE "en"

FileOf(chunk) ==
  CHOOSE f \in {dataDir[j] : j \in 1..Len(dataDir)} :
    <<f.dir, f.stem>> = chunk.source

\* C18: every chunk of a file carries the language resolved by precedence:
\* the language its header declares if it declares one, whatever detection
\* says; otherwise English by the heuristic, otherwise the detected language,
\* otherwise "en".
C18_LanguageResolvedByPrecedence ==
  \A k \in 1..Len(chunks) :
    chunks[k].language = LanguageByPrecedence(FileOf(chunks[k]), translating)

\* A save that ran to its end in the present run.
SaveCompleted ==
  /\ saving = "no"
  /\ savedIndex.some /\ savedChunks.some /\ savedConfig.some
  /\ savedIndex.v.whole /\ savedChunks.v.whole /\ savedConfig.v.whole
  /\ savedIndex.v.run = run /\ savedChunks.v.run = run /\ savedConfig.v.run = run

\* C19: once build_index has run, whatever public operations follow, the index
\* has one vector per chunk and the vector at a position is the embedding of
\* the text of the chunk at that position; every snapshot a save wrote has a
\* faiss.index, a chunks.json and a total_chunks of one size.
C19_IndexAlignedWithChunks ==
  /\ faissIndex.some =>
       /\ Len(faissIndex.v) = Len(chunks)
       /\ \A k \in 1..Len(chunks) : faissIndex.v[k] = Embed(chunks[k].text)
  /\ SaveCompleted =>
       /\ Len(savedIndex.v.vectors) = Len(savedChunks.v.chunks)
       /\ savedConfig.v.total_chunks = Len(savedChunks.v.chunks)

\* C20: a Retriever constructed at any moment, also while the save of a later
\* ingestion run is in progress or after that save was interrupted, holds a
\* faiss.index and a chunks.json written by one and the same run.
C20_RetrieverLoadsOneRunsSnapshot ==
  retriever.pc = "constructed" =>
    retriever.index.v.run = retriever.chunks.v.run

(* ------------------------ Claims on the backoff ----------------------- *)

\* C28: a call whose five attempts all failed with a retryable error waited
\* four backoff intervals, one before each further attempt, and returned
\* without a backoff after the last attempt.
C28_NoBackoffAfterLastAttempt ==
  \A t \in threads :
    (pc[t] = "done" /\ AllRequestsFailedRetryable(t)
       /\ Requests(trace[t]) = max_retries) =>
      /\ Count(trace[t], "backoff") = max_retries - 1
      /\ trace[t][Len(trace[t])].e # "backoff"

(* ------------------------- run(), step by step ------------------------ *)

\* injest_v2.py:264-265: run(skip_translation=True) passes over translate_chunks
skip_translation ==
  /\ run > 0 /\ saving = "no" /\ ~InPass /\ ops = 1
  /\ ops' = ops + 1
  /\ UNCHANGED << chunk_size, overlap, dataDir, translating, chunks, embeddings,
                  faissIndex, saving, savedIndex, savedChunks, savedConfig, run,
                  retriever, numbering, passed, results, translatorSide >>

\* injest_v2.py:256-270: the steps of run(); ops is the number of them that
\* are done.
RunSteps ==
  \/ ops = 0 /\ load_files
  \/ /\ ops = 1
     /\ \E max_translate \in {0, 1} : translate_chunks(max_translate)
  \/ PassSteps
  \/ skip_translation
  \/ ops = 2 /\ embed_chunks
  \/ ops = 3 /\ build_index
  \/ ops = 4 /\ savedIndex = None /\ save_index_open
  \/ SaveSteps

\* The steps of a translate call whose request the service refuses: for the
\* moment (429), on which translate backs off and tries again, or for good.
RetrySteps ==
  \/ \E e \in {Err429, Err400} : request_fails(1, e)
  \/ backoff_wake(1)
  \/ retries_exhausted(1)

\* One process that calls run().
NextRun ==
  \/ /\ run = 0
     /\ \E p \in IngestorParams, corpus \in Corpora, translate_non_english \in BOOLEAN :
          \E found \in rglob(corpus) :
            new_run(p[1], p[2], found, translate_non_english)
  \/ RunSteps
  \/ InPass /\ RetrySteps

\* The same, with a cache whose files may be unreadable: run() ends where
\* translate_chunks raises.
NextRunIO ==
  \/ ~passed.raised /\ NextRun
  \/ translate_chunks_raises

\* run() is sequential code: it goes on as long as it has a step to take.
SpecRun == InitIngest /\ [][NextRun]_vars /\ WF_vars(NextRun)

\* The first chunk of the French document, which an earlier run translated.
EarlierText == <<"y", "z">>

\* The process of an ingestion run on the cache directory an earlier run left.
InitRunIO ==
  /\ InitTranslatorOn({1}, [t \in Threads |-> 1],
                      PutIndex(EmptyIndex, EarlierText, "fr", EnglishOf(EarlierText)),
                      PutFile(NoFiles, EarlierText, "fr", EnglishOf(EarlierText)))
  /\ NoIngestor
  /\ apiKey

SpecRunIO == InitRunIO /\ [][NextRunIO]_vars /\ WF_vars(NextRunIO)

\* A chunk whose translation failed is as load_file made it.
KeptUntranslated(k) ==
  /\ chunks[k].is_translation = FALSE
  /\ chunks[k].original_text = None
  /\ chunks[k].original_language = None

\* The step in which translate_chunks takes the empty string that translate
\* returned for the chunk it passed.
TranslateReturnedEmpty ==
  /\ passed.pc = "calling"
  /\ passed'.pc # "calling"
  /\ result[1] = <<>>

\* translate returned the empty string for a chunk of this pass, and raised
\* for none.
ReturnedEmpty == passed.failed # {} /\ ~passed.raised

\* C24: when translate returns the empty string for a chunk, the chunk stays
\* in the corpus with every field unchanged, then and for the rest of the
\* run; the loop goes on to the chunks selected after it until it has been
\* through all of them; and the run goes on to embed every chunk and to save
\* them all, the failed ones untranslated.
C24_FailedTranslationKeepsChunkAndRun ==
  /\ [][TranslateReturnedEmpty =>
          /\ chunks' = chunks
          /\ passed'.failed = passed.failed \cup {passed.positions[passed.at + 1]}
          /\ passed'.at = passed.at + 1
          /\ passed'.pc = IF passed'.at < Len(passed.positions)
                          THEN "loop" ELSE "returned"]_vars
  /\ [][\A k \in passed.failed :
          k \in 1..Len(chunks') /\ chunks'[k] = chunks[k]]_vars
  /\ (ReturnedEmpty ~>
        (/\ passed.pc = "returned"
         /\ passed.at = Len(passed.positions)
         /\ passed.positions = Ascending(ToTranslate(passed.max_chunks))))
  /\ (ReturnedEmpty ~>
        (/\ SaveCompleted
         /\ savedChunks.v.chunks = chunks
         /\ savedConfig.v.total_chunks = Len(chunks)
         /\ savedIndex.v.vectors = [k \in 1..Len(chunks) |-> Embed(chunks[k].text)]
         /\ \A k \in passed.failed : KeptUntranslated(k)))

\* A run is saved in which translate returned the empty string for the first
\* of two selected chunks and a translation for the second.
C24_Witness ==
  /\ SaveCompleted
  /\ passed.pc = "returned"
  /\ passed.positions = <<2, 3>>
  /\ passed.failed = {2}
  /\ KeptUntranslated(2)
  /\ chunks[3].is_translation
  /\ savedChunks.v.chunks = chunks

\* The first n of the positions of the chunks whose language is not "en", in
\* corpus order; all of them for n = 0.
FirstNonEnglish(n) ==
  LET positions == [k \in 1..Len(chunks) |-> k]
      non_english == SelectSeq(positions, LAMBDA k : chunks[k].language # "en")
  IN IF n = 0 THEN non_english
     ELSE SubSeq(non_english, 1, Min(n, Len(non_english)))

\* C26: translate_chunks(max_chunks = N) of an ingestor with a translator
\* passes to the translator the first N chunks, in corpus order, whose
\* language is not "en" (all of them for N none or 0) and no other chunk, and
\* leaves every chunk it did not pass as it was.
C26_TranslatesFirstNonEnglishChunks ==
  /\ [][(passed.pc = "loop" /\ passed'.pc = "calling") =>
          LET first == FirstNonEnglish(passed.max_chunks) IN
            /\ passed.at < Len(first)
            /\ chunks[first[passed.at + 1]].language # "en"
            /\ args'[1].text = chunks[first[passed.at + 1]].text
            /\ args'[1].source_lang = chunks[first[passed.at + 1]].language]_vars
  /\ [][(passed.pc # "returned" /\ passed'.pc = "returned") =>
          /\ translating
          /\ passed'.at = Len(FirstNonEnglish(passed'.max_chunks))
          /\ passed'.positions = FirstNonEnglish(passed'.max_chunks)]_vars
  /\ [][InPass =>
          /\ Len(chunks') = Len(chunks)
          /\ \A k \in 1..Len(chunks) :
               chunks'[k] # chunks[k] =>
                 /\ passed.pc = "calling"
                 /\ k = FirstNonEnglish(passed.max_chunks)[passed.at + 1]]_vars

\* Of an English chunk followed by two French ones, translate_chunks(1) has
\* passed the first French chunk alone, and has returned.
C26_Witness ==
  /\ passed.pc = "returned"
  /\ passed.max_chunks = 1 /\ passed.positions = <<2>> /\ passed.failed = {}
  /\ args[1].text = <<"y", "z">>
  /\ Len(chunks) = 3
  /\ chunks[1].language = "en" /\ chunks[1].is_translation = FALSE
  /\ chunks[2].language = "fr" /\ chunks[2].is_translation = TRUE
  /\ chunks[3].language = "fr" /\ chunks[3].is_translation = FALSE

(* ----------------------- run() called a second time ------------------- *)

\* injest_v2.py:256-269: run(skip_translation=True) called again on the
\* ingestor whose run() has returned, up to the call of save
run_again_until_save ==
  LET loaded == chunks \o LoadAll(dataDir,
                                  chunk_size, overlap, translating)
      vectors == [k \in 1..Len(loaded) |-> Embed(loaded[k].text)]
  IN
  /\ SaveCompleted /\ ops = 3
  /\ ops' = ops + 3
  /\ chunks' = loaded
  /\ embeddings' = Some(vectors)
  /\ faissIndex' = Some(vectors)
  /\ UNCHANGED << chunk_size, overlap, dataDir, translating, saving, savedIndex,
                  savedChunks, savedConfig, run, retriever, numbering, passed,
                  results, translatorSide >>

\* One ingestor on which run() is called and, once it has returned, called
\* again; the files under data_dir stay as they are.
NextRerun ==
  \/ /\ run = 0
     /\ \E p \in IngestorParams, corpus \in Corpora, translate_non_english \in BOOLEAN :
          \E found \in rglob(corpus) :
            new_run(p[1], p[2], found, translate_non_english)
  \/ run_until_save
  \/ run_again_until_save
  \/ save_index_open
  \/ SaveSteps

SpecRerun == InitIngest /\ [][NextRerun]_vars

\* C27: when the second run() on the same ingestor over unchanged files has
\* returned, the chunk list and the saved snapshot are what they were after
\* the first, with no chunk present twice.
C27_SecondRunRebuildsWholesale ==
  LET first == LoadAll(dataDir,
                       chunk_size, overlap, translating)
  IN (SaveCompleted /\ ops = 3 + 3) =>
       /\ chunks = first
       /\ savedChunks.v.chunks = first
       /\ Len(savedIndex.v.vectors) = Len(first)
       /\ savedConfig.v.total_chunks = Len(first)

(* --------------------- Claims on the Retriever ------------------------ *)

\* C25: a Retriever results only from a construction that found faiss.index
\* and chunks.json; a construction that finds one of them missing ends in a
\* FileNotFoundError naming that file, leaving no Retriever.
C25_MissingArtifactFailsConstruction ==
  /\ [](retriever.pc = "constructed" =>
          /\ retriever.index.some /\ retriever.chunks.some
          /\ retriever.error = None)
  /\ [](retriever.pc = "index_loaded" => retriever.index.some)
  /\ [][(retriever' # retriever /\ retriever.pc # "index_loaded"
           /\ savedIndex = None) =>
          /\ retriever'.pc = "failed"
          /\ retriever'.error = Some(FileNotFoundError("faiss.index"))
          /\ retriever'.index = None /\ retriever'.chunks = None]_vars
  /\ [][(retriever' # retriever /\ retriever.pc = "index_loaded"
           /\ savedChunks = None) =>
          /\ retriever'.pc = "failed"
          /\ retriever'.error = Some(FileNotFoundError("chunks.json"))
          /\ retriever'.index = None /\ retriever'.chunks = None]_vars

\* A construction that found the index of a save in progress and no
\* chunks.json yet.
C25_Witness ==
  /\ retriever.pc = "failed"
  /\ retriever.error = Some(FileNotFoundError("chunks.json"))
  /\ savedIndex.some /\ savedChunks = None

(* ------------------------------ retrieve ------------------------------ *)

\* top_k of the retrieve calls
MaxTopK == 2

\* retrieve_v2.py:64  top_k * 3
Oversampling == 3

\* The id, and the score, that index.search gives to a result it has not.
NoId == 0 - 1
NoScore == 0 - 1

RetrievalCorpora ==
  { {LatinDoc}, {ChronicleDoc, LatinDoc, EnglishDoc}, {GermanDoc, FrenchDoc} }

Questions == { <<"r", "e">>, <<"a", "b", "k">> }

\* The language lists of the calls; the empty list stands for None as well,
\* the code testing only whether the list is true.
LanguageLists == { <<>>, <<"la">>, <<"en">>, <<"fr", "la">> }

Elements(list) == {list[j] : j \in 1..Len(list)}

\* The inner product of the embedding of the question with a vector of the
\* index: here the number of characters of the text that the question has.
Score(question, vector) ==
  Cardinality({k \in 1..Len(vector.of) : vector.of[k] \in Elements(question)})

\* The orders in which a search may give the m best of the ids in remaining,
\* equal scores in any order.
RECURSIVE BestFirst(_, _, _, _)
BestFirst(vectors, question, remaining, m) ==
  IF m = 0 \/ remaining = {} THEN { <<>> }
  ELSE LET best == {id \in remaining :
                      \A other \in remaining :
                        Score(question, vectors[other + 1])
                          <= Score(question, vectors[id + 1])}
       IN UNION { { <<[score |-> Score(question, vectors[id + 1]), id |-> id]>> \o rest :
                      rest \in BestFirst(vectors, question, remaining \ {id}, m - 1) } :
                  id \in best }

\* retrieve_v2.py:65, retrieve.py:12: index.search(q, k) gives k results, the
\* best first, and fills up with the id -1 when the index has fewer vectors.
search(vectors, question, k) ==
  LET n == Len(vectors)
      padding == [j \in 1..(k - Min(k, n)) |-> [score |-> NoScore, id |-> NoId]]
  IN { found \o padding : found \in BestFirst(vectors, question, 0..(n - 1), k) }

\* A width that is top_k whatever the filter.
search_k_not_oversampled(top_k, languages) == top_k

\* retrieve_v2.py:64
search_k(top_k, languages) ==
  IF languages # <<>> THEN top_k * Oversampling ELSE top_k

\* list[idx] of Python for an idx in range, negative ones counting from the end
PyIndex(list, idx) == IF idx < 0 THEN list[Len(list) + idx + 1] ELSE list[idx + 1]

\* A test that lets every id through.
IsMissUnchecked(idx, n) == FALSE

\* retrieve_v2.py:68
IsMiss(idx, n) == idx < 0 \/ idx >= n

\* A filter that rejects nothing.
FilteredOutNever(chunk, languages) == FALSE

\* retrieve_v2.py:74-80
FilteredOut(chunk, languages) ==
  /\ languages # <<>>
  /\ chunk.language \notin Elements(languages)
  /\ ~(chunk.original_language.some
         /\ chunk.original_language.v \in Elements(languages))

\* retrieve_v2.py:67-85: the loop over the search results from the j-th on
RECURSIVE Walk(_, _, _, _, _, _)
Walk(hits, j, cs, languages, top_k, acc) ==
  IF j > Len(hits) THEN acc
  ELSE IF IsMiss(hits[j].id, Len(cs))
       THEN Walk(hits, j + 1, cs, languages, top_k, acc)
  ELSE LET chunk == PyIndex(cs, hits[j].id) IN
       IF FilteredOut(chunk, languages)
       THEN Walk(hits, j + 1, cs, languages, top_k, acc)
       ELSE LET longer == Append(acc, [score |-> hits[j].score, id |-> hits[j].id,
                                       chunk |-> chunk])
            IN IF Len(longer) >= top_k THEN longer
               ELSE Walk(hits, j + 1, cs, languages, top_k, longer)

\* retrieve_v2.py:43-87
retrieve(question, top_k, languages) ==
  /\ retriever.pc = "constructed"
  /\ \E hits \in search(retriever.index.v.vectors, question,
                        search_k(top_k, languages)) :
       results' = [ fn |-> "Retriever.retrieve", question |-> question,
                    top_k |-> top_k, languages |-> languages, hits |-> hits,
                    out |-> Walk(hits, 1, retriever.chunks.v.chunks, languages,
                                 top_k, <<>>) ]
  /\ UNCHANGED << ingestorVars, retriever, numbering, passed, translatorSide >>

\* retrieve.py:10-18: index and chunks are those the module read when it was
\* imported
retrieve_v1(question, top_k) ==
  /\ retriever.pc = "constructed"
  /\ \E hits \in search(retriever.index.v.vectors, question, top_k) :
       results' = [ fn |-> "retrieve", question |-> question,
                    top_k |-> top_k, languages |-> <<>>, hits |-> hits,
                    out |-> [rank \in 1..Len(hits) |->
                               [ score |-> hits[rank].score, id |-> hits[rank].id,
                                 chunk |-> PyIndex(retriever.chunks.v.chunks,
                                                   hits[rank].id) ]] ]
  /\ UNCHANGED << ingestorVars, retriever, numbering, passed, translatorSide >>

\* run_demo.py:55-63
retrieve_demo(question, top_k) ==
  /\ retriever.pc = "constructed"
  /\ \E hits \in search(retriever.index.v.vectors, question, top_k) :
       LET cs == retriever.chunks.v.chunks
           kept == SelectSeq(hits, LAMBDA h : h.id >= 0 /\ h.id < Len(cs))
       IN results' = [ fn |-> "run_demo.retrieve", question |-> question,
                       top_k |-> top_k, languages |-> <<>>, hits |-> hits,
                       out |-> [rank \in 1..Len(kept) |->
                                  [ score |-> kept[rank].score, id |-> kept[rank].id,
                                    chunk |-> PyIndex(cs, kept[rank].id) ]] ]
  /\ UNCHANGED << ingestorVars, retriever, numbering, passed, translatorSide >>

\* One ingestion run, run(), and retrieval sessions on what it saved.
NextRetrieve ==
  \/ /\ run = 0
     /\ \E p \in IngestorParams, corpus \in RetrievalCorpora :
          \E found \in rglob(corpus) : new_run(p[1], p[2], found, TRUE)
  \/ RunSteps
  \/ RetrieverSteps
  \/ \E question \in Questions, top_k \in 1..MaxTopK, languages \in LanguageLists :
       retrieve(question, top_k, languages)
  \/ \E question \in Questions, top_k \in 1..MaxTopK : retrieve_v1(question, top_k)
  \/ \E question \in Questions, top_k \in 1..MaxTopK : retrieve_demo(question, top_k)

SpecRetrieve == InitIngest /\ [][NextRetrieve]_vars

(* ----------------------- Claims on retrieve --------------------------- *)

\* C21: when retrieve is given a non-empty list of languages, each chunk it
\* returns has its language or its original_language in the list.
C21_ReturnedChunksMatchLanguages ==
  (results.fn = "Retriever.retrieve" /\ results.languages # <<>>) =>
    \A j \in 1..Len(results.out) :
      \E l \in 1..Len(results.languages) :
        \/ results.out[j].chunk.language = results.languages[l]
        \/ results.out[j].chunk.original_language = Some(results.languages[l])

\* A search for Latin in a corpus of English and Latin chunks gave Latin
\* chunks alone although an English chunk scored best.
C21_Witness ==
  /\ retriever.pc = "constructed"
  /\ results.fn = "Retriever.retrieve" /\ results.languages = <<"la">>
  /\ results.top_k = 2
  /\ Len(results.out) = 2
  /\ PyIndex(retriever.chunks.v.chunks, results.hits[1].id).language = "en"
  /\ results.out[1].chunk.language = "la"

\* The hits of the last search that are results, not padding.
Candidates == SelectSeq(results.hits, LAMBDA h : h.id # NoId)

Passes(h) ==
  LET chunk == retriever.chunks.v.chunks[h.id + 1] IN
    \/ results.languages = <<>>
    \/ chunk.language \in Elements(results.languages)
    \/ /\ chunk.original_language # None
       /\ chunk.original_language.v \in Elements(results.languages)

\* C22: retrieve returns the first top_k of the candidates that pass the
\* language filter, in the order of the search, the candidates being the
\* results of a search for 3 * top_k hits when languages are given and for
\* top_k hits otherwise; the scores returned never increase.
C22_FirstTopKPassingInSearchOrder ==
  (results.fn = "Retriever.retrieve" /\ retriever.pc = "constructed") =>
    LET passing == SelectSeq(Candidates, Passes)
        n == Len(retriever.index.v.vectors)
        width == IF results.languages # <<>> THEN 3 * results.top_k
                 ELSE results.top_k
    IN /\ Len(results.hits) = width
       /\ Len(Candidates) = Min(width, n)
       /\ \A j \in 1..Len(Candidates) :
            \A id \in 0..(n - 1) :
              (\A m \in 1..Len(Candidates) : Candidates[m].id # id) =>
                Score(results.question, retriever.index.v.vectors[id + 1])
                  <= Candidates[j].score
       /\ Len(results.out) = Min(results.top_k, Len(passing))
       /\ \A j \in 1..Len(results.out) :
            /\ results.out[j].id = passing[j].id
            /\ results.out[j].score = passing[j].score
            /\ results.out[j].chunk = retriever.chunks.v.chunks[passing[j].id + 1]
       /\ \A j \in 1..(Len(results.out) - 1) :
            results.out[j].score >= results.out[j + 1].score

\* With top_k 1 and a filter for Latin the search went 3 deep and the result
\* is the third hit, after two English chunks that scored higher.
C22_Witness ==
  /\ results.fn = "Retriever.retrieve" /\ results.languages = <<"la">>
  /\ results.top_k = 1 /\ Len(results.hits) = 3
  /\ Len(results.out) = 1
  /\ results.out[1].id = results.hits[3].id
  /\ results.hits[1].score > results.hits[3].score

\* C23: retrieve returns at most min(top_k, n) pairs, for distinct positions
\* of the chunk list, none of them made of the padding of a search wider than
\* the index.
C23_AtMostTopKValidDistinct ==
  (results.fn = "Retriever.retrieve" /\ retriever.pc = "constructed") =>
    LET n == Len(retriever.index.v.vectors) IN
      /\ Len(results.out) <= Min(results.top_k, n)
      /\ \A j \in 1..Len(results.out) :
           /\ results.out[j].id >= 0 /\ results.out[j].id < n
           /\ results.out[j].score # NoScore
           /\ results.out[j].chunk = retriever.chunks.v.chunks[results.out[j].id + 1]
      /\ \A j, m \in 1..Len(results.out) :
           results.out[j].id = results.out[m].id => j = m

\* Three chunks of languages en, la, en, a filter for Latin and top_k 2: the
\* search is 6 wide, three of its results are padding, and the one Latin chunk
\* is returned.
C23_Witness ==
  /\ results.fn = "Retriever.retrieve" /\ retriever.pc = "constructed"
  /\ [k \in 1..Len(retriever.chunks.v.chunks) |->
        retriever.chunks.v.chunks[k].language] = <<"en", "la", "en">>
  /\ results.languages = <<"la">> /\ results.top_k = 2
  /\ Len(results.hits) = 6 /\ results.hits[6].id = NoId
  /\ Len(results.out) = 1
  /\ results.out[1].chunk.language = "la"

\* C29: the v1 retrieve functions return only chunks at positions the search
\* gave as hits: fewer than top_k when the index has fewer vectors, and never
\* a chunk taken with the id -1 of a missing result.
C29_V1ReturnsOnlyHits ==
  (results.fn \in {"retrieve", "run_demo.retrieve"}
     /\ retriever.pc = "constructed") =>
    /\ Len(results.out) <= Len(retriever.index.v.vectors)
    /\ \A j \in 1..Len(results.out) :
         /\ results.out[j].id >= 0
         /\ results.out[j].id < Len(retriever.index.v.vectors)

\* A chunk is a translation only with a language other than English, which
\* is its original language.
TranslationKeepsLanguage(chunk) ==
  chunk.is_translation = TRUE =>
    /\ chunk.original_language = Some(chunk.language)
    /\ chunk.language # "en"

\* C30: in the corpus of an ingestor, in its snapshot and in what a Retriever
\* loaded from it, a translated chunk has the language it had before, equal
\* to its original_language and not "en"; retrieve with languages = ["en"]
\* returns no translated chunk.
C30_TranslationsKeepLanguage ==
  /\ \A k \in 1..Len(chunks) : TranslationKeepsLanguage(chunks[k])
  /\ Whole(savedChunks) =>
       \A k \in 1..Len(savedChunks.v.chunks) :
         TranslationKeepsLanguage(savedChunks.v.chunks[k])
  /\ retriever.chunks.some =>
       \A k \in 1..Len(retriever.chunks.v.chunks) :
         TranslationKeepsLanguage(retriever.chunks.v.chunks[k])
  /\ (results.fn = "Retriever.retrieve" /\ results.languages = <<"en">>) =>
       \A j \in 1..Len(results.out) :
         /\ results.out[j].chunk.is_translation = FALSE
         /\ results.out[j].chunk.language = "en"

\* A search for English over a corpus whose best hit is a translated Latin
\* chunk returned the English chunks after it.
C30_Witness ==
  /\ results.fn = "Retriever.retrieve" /\ results.languages = <<"en">>
  /\ retriever.pc = "constructed"
  /\ PyIndex(retriever.chunks.v.chunks, results.hits[1].id).is_translation = TRUE
  /\ PyIndex(retriever.chunks.v.chunks, results.hits[1].id).language = "la"
  /\ Len(results.out) >= 1
  /\ results.out[1].chunk.language = "en"

====
